---- MODULE Spec2Model ----
(***************************************************************************)
(* Model of the durian trading bot: the moving-average crossover signal    *)
(* engine in its two implementations (SimpleMAStrategy driven by           *)
(* DurianTradingBot, and SMAStrategy), the multi-strategy BotRunner from   *)
(* main() to its teardown, the StrategyRegistry, and the lifecycle methods *)
(* of SMAStrategy and GeminiPortfolioStrategy under arbitrary callers.     *)
(*                                                                         *)
(* Prices are integer ticks.  A moving average is kept as the exact        *)
(* fraction <<sum, period>> that the code computes as sum / period, and    *)
(* two averages are compared by cross multiplication.                      *)
(***************************************************************************)
EXTENDS Integers, Sequences, FiniteSets, TLC

\* ------------------------------------------------------------------ bounds
MaxBars == 5
MaxPrice == 3
MaxSlow == 3
MaxRequested == 2
MaxRegs == 3
MaxCreates == 2
MaxStarts == 2
MaxStops == 2
MaxSignals == 2
MaxCalls == 2
MaxAssets == 2
MaxTarget == 2

\* Python's None, for position, last_signal and absent results.
None == "None"

Impls == {"bot", "sma"}
Prices == 1..MaxPrice
\* (fast_period, slow_period) pairs a strategy may be constructed with.
Configs == {c \in (1..MaxSlow) \X (1..MaxSlow) : c[1] <= c[2]}

\* bot.py's configuration
FAST_PERIOD == 5
SLOW_PERIOD == 15

\* The closes of the end-to-end scenario, one bar each.
Scenario == <<10, 10, 10, 10, 10, 10, 10, 10, 10, 10, 11, 12, 13, 14, 15>>

VARIABLES
    impl,          \* which implementation runs: DurianTradingBot or SMAStrategy
    fast_period,   \* self.fast_period
    slow_period,   \* self.slow_period
    prices,        \* self.prices, a deque(maxlen = slow_period)
    position,      \* self.position: None or "LONG"
    last_signal,   \* self.last_signal: None, "BUY" or "SELL"
    trade_count,   \* self.trade_count
    trading_client,\* TRUE when self.trading_client is set
    is_running,    \* self.is_running (SMAStrategy)
    data_stream,   \* "None", "created", "subscribed" or "closed"
    stream_task,   \* the task running the stream: "None", "running", "cancelled"
    start_pc,      \* where the call of start() is: idle, looping, returned, raised
    stop_pc,       \* where the call of stop() is: idle or sleeping
    fill_checks,   \* check_order_fill tasks created and not yet run
    stats,         \* <<snapshot>> when the last operation was get_stats
    feed,          \* what the market data feed delivers: "any" or "scenario"
    fed,           \* every close price delivered so far, in order
    orders,        \* sides of the orders the broker accepted, in order
    signals,       \* non-None signals returned by check_signal, in order
    bar_result     \* what the last bar handling computed and did

strategy_vars == <<impl, fast_period, slow_period, prices, position,
                   last_signal, trade_count, trading_client, is_running,
                   data_stream, stream_task, start_pc, stop_pc, fill_checks,
                   stats, feed, fed, orders, signals, bar_result>>

VARIABLES
    variant,        \* which runner: "root" (bot_runner.py) or "bot" (bot/bot_runner.py)
    platform,       \* sys.platform: "win32" or "posix"
    env_ok,         \* TRUE when the API keys _validate_environment wants are set
    registry,       \* StrategyRegistry._strategies: the registered names
    strategy_names, \* the names parsed from STRATEGIES
    main_pc,        \* where main() is
    load_i,         \* index of the name load_strategies is at
    strategies,     \* BotRunner.strategies: the loaded instances, in order
    created,        \* names of the instances StrategyRegistry.create built
    initialized,    \* names of the instances initialize() was called on
    load_failed,    \* index of the name whose loading raised, 0 if none
    handlers,       \* TRUE when the signal handlers are installed
    exit_code,      \* "None" while running, else "0", "1" or the uncaught error
    sig_count,      \* SIGINT/SIGTERM deliveries the signal handler has run for
    shutdowns,      \* the executions of BotRunner.shutdown, in order of creation
    shutdown_event, \* BotRunner.shutdown_event is set
    wait_pc         \* where _wait_for_shutdown is: none, waiting, shutdown, returned

teardown_vars == <<sig_count, shutdowns, shutdown_event, wait_pc>>

runner_vars == <<variant, platform, env_ok, registry, strategy_names, main_pc,
                 load_i, strategies, created, initialized, load_failed,
                 handlers, exit_code, teardown_vars>>

VARIABLES
    reg_log,        \* the register(name, class) calls made so far, in order
    create_calls,   \* number of StrategyRegistry.create calls made
    n_instances,    \* number of instances those calls constructed
    create_result   \* the last create call: its arguments and what came back

registry_vars == <<reg_log, create_calls, n_instances, create_result>>

VARIABLES
    init_state,     \* initialize(): "none" not called, "ok" returned, "failed" raised
    scheduler,      \* GeminiPortfolioStrategy.scheduler: "None", "created",
                    \* "running" or "shutdown"
    jobs,           \* daily_rebalance jobs the scheduler was given
    tasks_created,  \* stream tasks start() has created
    loops,          \* calls of start() that are inside the run-loop
    start_calls,    \* number of start() calls made
    stop_calls,     \* number of stop() calls made
    start_result,   \* the last start() call: "none", "looping" or "raised"
    stop_raised     \* TRUE when the last stop() call raised

lifecycle_vars == <<init_state, scheduler, jobs, tasks_created, loops,
                    start_calls, stop_calls, start_result, stop_raised>>

VARIABLES
    in_flight,      \* the bar handlers that are suspended part-way, oldest first
    fill_seen       \* the order status the last fill check saw, None once
                    \* another bar was handled

handler_vars == <<in_flight, fill_seen>>

VARIABLES
    call,           \* the last method call made on the strategy object directly
    stats_result    \* what the last get_stats() call returned

call_vars == <<call, stats_result>>

VARIABLES
    scored_assets,  \* the AssetScore list determine_allocation is given
    target_count,   \* portfolio_size, determine_allocation's target_count
    ai_output,      \* <<the model's reply>> of the last determine_allocation
    plan,           \* <<the PortfolioAllocation>> it returned
    rebalance       \* <<what the last _execute_rebalance run did>>

portfolio_vars == <<scored_assets, target_count, ai_output, plan, rebalance>>

VARIABLES
    sig_queue       \* the SIGINT/SIGTERM deliveries since the handlers were
                    \* installed: where main() was, and whether the event
                    \* loop has run the handler for it

loop_vars == <<sig_queue>>

VARIABLES
    twin            \* <<an SMAStrategy fed the bars and the broker's answers
                    \* that the DurianTradingBot of the model is fed>>

twin_vars == <<twin>>

vars == <<strategy_vars, runner_vars, registry_vars, lifecycle_vars,
          handler_vars, call_vars, portfolio_vars, loop_vars, twin_vars>>

\* ------------------------------------------------------- arithmetic helpers
RECURSIVE SumSeq(_)
SumSeq(s) == IF s = <<>> THEN 0 ELSE Head(s) + SumSeq(Tail(s))

\* list(q)[-n:] for 1 <= n <= Len(q)
LastN(q, n) == SubSeq(q, Len(q) - n + 1, Len(q))

\* a / b compared with c / d for positive b, d
RatGT(x, y) == x[1] * y[2] > y[1] * x[2]
RatLT(x, y) == x[1] * y[2] < y[1] * x[2]

\* calculate_ma's None: no average is available
Unavailable == <<>>

\* DequeAppend without a capacity: nothing is evicted.
DequeAppend_unbounded(q, p, n) == Append(q, p)

\* deque(maxlen = n).append(p)
DequeAppend(q, p, n) ==
    IF Len(q) >= n THEN Append(Tail(q), p) ELSE Append(q, p)

\* bar_result when no signal was returned: should is meaningful only when
\* emitted is a signal, submit only when should is TRUE.
NoResult == [emitted |-> None, fast_ma |-> Unavailable,
             slow_ma |-> Unavailable, should |-> FALSE, submit |-> "none"]

\* ------------------------------------------- strategy.py: SimpleMAStrategy
\* add_price on a list that keeps every close.
add_price_unbounded(q, price, maxlen) == Append(q, price)

add_price(q, price, maxlen) == DequeAppend(q, price, maxlen)

\* calculate_ma over the oldest prices, list(q)[:period].
calculate_ma_oldest(q, period) ==
    IF Len(q) < period THEN Unavailable
    ELSE <<SumSeq(SubSeq(q, 1, period)), period>>

calculate_ma(q, period) ==
    IF Len(q) < period THEN Unavailable ELSE <<SumSeq(LastN(q, period)), period>>

\* is_ready one bar late.
is_ready_late(q, slow) == Len(q) > slow

is_ready(q, slow) == Len(q) >= slow

get_current_mas(q, fast, slow) ==
    IF ~is_ready(q, slow) THEN <<Unavailable, Unavailable>>
    ELSE <<calculate_ma(q, fast), calculate_ma(q, slow)>>

\* check_signal with a tie counted as a bullish crossover.
check_signal_tie(q, fast, slow, ls) ==
    LET fast_ma == calculate_ma(q, fast)
        slow_ma == calculate_ma(q, slow)
    IN  IF ~RatLT(fast_ma, slow_ma) /\ ls # "BUY"
        THEN [signal |-> "BUY", fast_ma |-> fast_ma, slow_ma |-> slow_ma,
              last_signal |-> "BUY", raised |-> FALSE]
        ELSE IF RatLT(fast_ma, slow_ma) /\ ls # "SELL"
        THEN [signal |-> "SELL", fast_ma |-> fast_ma, slow_ma |-> slow_ma,
              last_signal |-> "SELL", raised |-> FALSE]
        ELSE [signal |-> None, fast_ma |-> fast_ma, slow_ma |-> slow_ma,
              last_signal |-> ls, raised |-> FALSE]

\* Returns the signal with both averages, and the new last_signal.
\* "raised" stands for the TypeError of comparing None with a number.
check_signal(q, fast, slow, ls) ==
    IF ~is_ready(q, slow)
    THEN [signal |-> None, fast_ma |-> Unavailable,
          slow_ma |-> Unavailable, last_signal |-> ls, raised |-> FALSE]
    ELSE LET fast_ma == calculate_ma(q, fast)
             slow_ma == calculate_ma(q, slow)
         IN  IF fast_ma = Unavailable \/ slow_ma = Unavailable
             THEN [signal |-> None, fast_ma |-> fast_ma, slow_ma |-> slow_ma,
                   last_signal |-> ls, raised |-> TRUE]
             ELSE IF RatGT(fast_ma, slow_ma) /\ ls # "BUY"
             THEN [signal |-> "BUY", fast_ma |-> fast_ma, slow_ma |-> slow_ma,
                   last_signal |-> "BUY", raised |-> FALSE]
             ELSE IF RatLT(fast_ma, slow_ma) /\ ls # "SELL"
             THEN [signal |-> "SELL", fast_ma |-> fast_ma, slow_ma |-> slow_ma,
                   last_signal |-> "SELL", raised |-> FALSE]
             ELSE [signal |-> None, fast_ma |-> fast_ma, slow_ma |-> slow_ma,
                   last_signal |-> ls, raised |-> FALSE]

\* should_execute_trade that lets a BUY through whatever the position.
should_execute_trade_buy_always(signal_type, pos) ==
    IF signal_type = "BUY" THEN TRUE
    ELSE IF signal_type = "SELL" /\ pos = "LONG" THEN TRUE
    ELSE FALSE

should_execute_trade(signal_type, pos) ==
    IF signal_type = "BUY" /\ pos = None THEN TRUE
    ELSE IF signal_type = "SELL" /\ pos = "LONG" THEN TRUE
    ELSE FALSE

\* update_position that can only open a position.
update_position_long(new_position) == "LONG"

update_position(new_position) == new_position

increment_trade_count(n) == n + 1

\* ---------------------------------------------- bot.py: DurianTradingBot
\* execute_trade that updates the position before the order is accepted.
execute_trade_early(side, pos, n, submit_ok) ==
    IF submit_ok
    THEN [position |-> IF side = "BUY" THEN "LONG" ELSE None,
          trade_count |-> n + 1, submit |-> "ok"]
    ELSE [position |-> IF side = "BUY" THEN "LONG" ELSE None,
          trade_count |-> n, submit |-> "fail"]

\* submit_ok is the outcome of trading_client.submit_order: it returns an
\* order (TRUE) or raises (FALSE).  The result is the strategy's position
\* and trade_count after the call, and whether a fill check was scheduled.
execute_trade(side, pos, n, submit_ok) ==
    IF submit_ok
    THEN [position |-> update_position(IF side = "BUY" THEN "LONG" ELSE None),
          trade_count |-> increment_trade_count(n),
          submit |-> "ok"]
    ELSE [position |-> pos, trade_count |-> n, submit |-> "fail"]

handle_bar(q, pos, ls, n, fast, slow, price, submit_ok) ==
    LET q1 == add_price(q, price, slow)
    IN  IF ~is_ready(q1, slow)
        THEN [prices |-> q1, position |-> pos, last_signal |-> ls,
              trade_count |-> n, res |-> NoResult]
        ELSE
        LET sig == check_signal(q1, fast, slow, ls)
        IN  IF sig.raised \/ sig.signal = None
            THEN [prices |-> q1, position |-> pos,
                  last_signal |-> sig.last_signal, trade_count |-> n,
                  res |-> [NoResult EXCEPT !.fast_ma = sig.fast_ma,
                                           !.slow_ma = sig.slow_ma]]
            ELSE IF should_execute_trade(sig.signal, pos)
            THEN LET t == execute_trade(sig.signal, pos, n, submit_ok)
                 IN  [prices |-> q1, position |-> t.position,
                      last_signal |-> sig.last_signal,
                      trade_count |-> t.trade_count,
                      res |-> [emitted |-> sig.signal, fast_ma |-> sig.fast_ma,
                               slow_ma |-> sig.slow_ma, should |-> TRUE,
                               submit |-> t.submit]]
            ELSE [prices |-> q1, position |-> pos,
                  last_signal |-> sig.last_signal, trade_count |-> n,
                  res |-> [emitted |-> sig.signal, fast_ma |-> sig.fast_ma,
                           slow_ma |-> sig.slow_ma, should |-> FALSE,
                           submit |-> "none"]]

\* ------------------------- strategies/sma_crossover_strategy.py: SMAStrategy
SMA_calculate_ma(q, period) ==
    IF Len(q) < period THEN Unavailable ELSE <<SumSeq(LastN(q, period)), period>>

\* _check_signal that does not look at last_signal.
SMA_check_signal_nodebounce(fast_ma, slow_ma, ls) ==
    IF RatGT(fast_ma, slow_ma)
    THEN [signal |-> "BUY", last_signal |-> "BUY"]
    ELSE IF RatLT(fast_ma, slow_ma)
    THEN [signal |-> "SELL", last_signal |-> "SELL"]
    ELSE [signal |-> None, last_signal |-> ls]

\* Returns the signal and the new last_signal.
SMA_check_signal(fast_ma, slow_ma, ls) ==
    IF RatGT(fast_ma, slow_ma) /\ ls # "BUY"
    THEN [signal |-> "BUY", last_signal |-> "BUY"]
    ELSE IF RatLT(fast_ma, slow_ma) /\ ls # "SELL"
    THEN [signal |-> "SELL", last_signal |-> "SELL"]
    ELSE [signal |-> None, last_signal |-> ls]

\* _should_execute_trade that lets every signal through.
SMA_should_execute_trade_always(signal, pos) == TRUE

SMA_should_execute_trade(signal, pos) ==
    IF signal = "BUY" /\ pos = None THEN TRUE
    ELSE IF signal = "SELL" /\ pos = "LONG" THEN TRUE
    ELSE FALSE

\* An except branch that counts the rejected order as a trade.
SMA_order_failed_counted(pos, n) ==
    [position |-> pos, trade_count |-> n + 1, submit |-> "fail"]

\* _execute_trade, the except branch: submit_order raised before the
\* position and the counter were touched; the error is logged and dropped.
SMA_order_failed(pos, n) ==
    [position |-> pos, trade_count |-> n, submit |-> "fail"]

\* _execute_trade that counts the trade but leaves the position alone.
SMA_execute_trade_noflip(signal, pos, n, submit_ok) ==
    IF submit_ok
    THEN [position |-> pos, trade_count |-> n + 1, submit |-> "ok"]
    ELSE [position |-> pos, trade_count |-> n, submit |-> "fail"]

SMA_execute_trade(signal, pos, n, submit_ok) ==
    IF submit_ok
    THEN [position |-> IF signal = "BUY" THEN "LONG" ELSE None,
          trade_count |-> n + 1,
          submit |-> "ok"]
    ELSE SMA_order_failed(pos, n)

\* A warm-up test that still holds when the window is full.
SMA_warming_up_late(q, slow) == Len(q) <= slow

\* _handle_bar's warm-up test, made after the close was appended
SMA_warming_up(q, slow) == Len(q) < slow

SMA_handle_bar(q, pos, ls, n, fast, slow, price, submit_ok) ==
    LET q1 == DequeAppend(q, price, slow)
    IN  IF SMA_warming_up(q1, slow)
        THEN [prices |-> q1, position |-> pos, last_signal |-> ls,
              trade_count |-> n, res |-> NoResult]
        ELSE
        LET fast_ma == SMA_calculate_ma(q1, fast)
            slow_ma == SMA_calculate_ma(q1, slow)
        IN  IF fast_ma = Unavailable \/ slow_ma = Unavailable
            THEN \* TypeError in _check_signal, caught by _handle_bar
                 [prices |-> q1, position |-> pos, last_signal |-> ls,
                  trade_count |-> n,
                  res |-> [NoResult EXCEPT !.fast_ma = fast_ma,
                                           !.slow_ma = slow_ma]]
            ELSE
            LET sig == SMA_check_signal(fast_ma, slow_ma, ls)
            IN  IF sig.signal = None
                THEN [prices |-> q1, position |-> pos,
                      last_signal |-> sig.last_signal, trade_count |-> n,
                      res |-> [NoResult EXCEPT !.fast_ma = fast_ma,
                                               !.slow_ma = slow_ma]]
                ELSE IF SMA_should_execute_trade(sig.signal, pos)
                THEN LET t == SMA_execute_trade(sig.signal, pos, n, submit_ok)
                     IN  [prices |-> q1, position |-> t.position,
                          last_signal |-> sig.last_signal,
                          trade_count |-> t.trade_count,
                          res |-> [emitted |-> sig.signal, fast_ma |-> fast_ma,
                                   slow_ma |-> slow_ma, should |-> TRUE,
                                   submit |-> t.submit]]
                ELSE [prices |-> q1, position |-> pos,
                      last_signal |-> sig.last_signal, trade_count |-> n,
                      res |-> [emitted |-> sig.signal, fast_ma |-> fast_ma,
                               slow_ma |-> slow_ma, should |-> FALSE,
                               submit |-> "none"]]

\* BotRunner.__init__: a fresh shutdown_event, nothing being torn down
TeardownInit ==
    /\ sig_count = 0
    /\ shutdowns = <<>>
    /\ shutdown_event = FALSE
    /\ wait_pc = "none"

\* The runner before main() is entered, with nothing requested.
RunnerIdle ==
    /\ variant = "root"
    /\ platform = "posix"
    /\ env_ok = TRUE
    /\ registry = <<>>
    /\ strategy_names = <<>>
    /\ main_pc = "idle"
    /\ load_i = 1
    /\ strategies = <<>>
    /\ created = <<>>
    /\ initialized = <<>>
    /\ load_failed = 0
    /\ handlers = FALSE
    /\ exit_code = None
    /\ TeardownInit

\* No register or create call has been recorded.
RegistryInit ==
    /\ reg_log = <<>>
    /\ create_calls = 0
    /\ n_instances = 0
    /\ create_result = [outcome |-> "none", name |-> None, config |-> None,
                        inst |-> <<>>]

\* No lifecycle call has been recorded.
LifecycleInit ==
    /\ init_state = "none"
    /\ scheduler = "None"
    /\ jobs = 0
    /\ tasks_created = 0
    /\ loops = 0
    /\ start_calls = 0
    /\ stop_calls = 0
    /\ start_result = "none"
    /\ stop_raised = FALSE

\* No bar handler is suspended and no fill check has run.
HandlerInit ==
    /\ in_flight = <<>>
    /\ fill_seen = None

\* stats_result before any get_stats() call
NoStats == [raised |-> FALSE, keys |-> {}, broker |-> "unused"]

\* No method was called on the strategy object directly.
CallInit ==
    /\ call = [op |-> "none", arg |-> None, ret |-> None, ma |-> Unavailable]
    /\ stats_result = NoStats

\* No signal has reached the process.
LoopInit == sig_queue = <<>>

\* The deliveries whose handler has not run yet
Pending(q) == {i \in 1..Len(q) : ~q[i].handled}

\* No second strategy is driven alongside.
TwinIdle == twin = <<>>

\* The portfolio engine as configured by default, before any analysis.
PortfolioIdle ==
    /\ scored_assets = <<>>
    /\ target_count = 15
    /\ ai_output = <<>>
    /\ plan = <<>>
    /\ rebalance = <<>>

\* ------------------------------------------------- the strategy as a machine
StrategyInit(configs, f) ==
    /\ impl \in Impls
    /\ feed = f
    /\ \E c \in configs : fast_period = c[1] /\ slow_period = c[2]
    /\ prices = <<>>
    /\ position = None
    /\ last_signal = None
    /\ trade_count = 0
    /\ trading_client = (impl = "bot")
    /\ is_running = FALSE
    /\ data_stream = IF impl = "bot" THEN "created" ELSE "None"
    /\ stream_task = "None"
    /\ start_pc = "idle"
    /\ stop_pc = "idle"
    /\ fill_checks = 0
    /\ stats = <<>>
    /\ fed = <<>>
    /\ orders = <<>>
    /\ signals = <<>>
    /\ bar_result = NoResult

\* A bar handling that gives the debounce back when the signal it emitted
\* did not end in an accepted order.
ApplyBar_restoring(r, price) ==
    /\ prices' = r.prices
    /\ position' = r.position
    /\ last_signal' = IF r.res.emitted # None /\ r.res.submit # "ok"
                       THEN last_signal ELSE r.last_signal
    /\ trade_count' = r.trade_count
    /\ bar_result' = r.res
    /\ fed' = Append(fed, price)
    /\ signals' = IF r.res.emitted # None
                  THEN Append(signals, r.res.emitted) ELSE signals
    /\ orders' = IF r.res.submit = "ok"
                 THEN Append(orders, r.res.emitted) ELSE orders
    /\ stats' = <<>>

\* The effect of one bar handling, r, on the strategy and on the record of
\* what the broker and the caller saw.
ApplyBar(r, price) ==
    /\ prices' = r.prices
    /\ position' = r.position
    /\ last_signal' = r.last_signal
    /\ trade_count' = r.trade_count
    /\ bar_result' = r.res
    /\ fed' = Append(fed, price)
    /\ signals' = IF r.res.emitted # None
                  THEN Append(signals, r.res.emitted) ELSE signals
    /\ orders' = IF r.res.submit = "ok"
                 THEN Append(orders, r.res.emitted) ELSE orders
    /\ stats' = <<>>

\* The stream delivers a bar: the task runs, the stream is open and the
\* feed has a bar left.
Delivering ==
    /\ stream_task = "running"
    /\ data_stream = "subscribed"
    /\ Len(fed) < (IF feed = "scenario" THEN Len(Scenario) ELSE MaxBars)

\* The closes the next bar may carry.
NextCloses == IF feed = "scenario" THEN {Scenario[Len(fed) + 1]} ELSE Prices

\* SMAStrategy.initialize
SMA_initialize ==
    /\ impl = "sma"
    /\ data_stream = "None"
    /\ trading_client' = TRUE
    /\ data_stream' = "subscribed"
    /\ stats' = <<>>
    /\ UNCHANGED <<impl, feed, fast_period, slow_period, prices, position,
                   last_signal, trade_count, is_running, stream_task,
                   start_pc, stop_pc, fill_checks, fed, orders, signals,
                   bar_result>>
    /\ UNCHANGED runner_vars
    /\ UNCHANGED registry_vars
    /\ UNCHANGED <<handler_vars, call_vars, portfolio_vars, loop_vars, twin_vars>>
    /\ UNCHANGED lifecycle_vars

\* SMAStrategy.start up to its first sleep
SMA_start ==
    /\ impl = "sma"
    /\ start_pc = "idle"
    /\ IF ~trading_client
       THEN /\ start_pc' = "raised"
            /\ UNCHANGED <<is_running, stream_task>>
       ELSE /\ is_running' = TRUE
            /\ stream_task' = "running"
            /\ start_pc' = "looping"
    /\ stats' = <<>>
    /\ UNCHANGED <<impl, feed, fast_period, slow_period, prices, position,
                   last_signal, trade_count, trading_client, data_stream,
                   stop_pc, fill_checks, fed, orders, signals, bar_result>>
    /\ UNCHANGED runner_vars
    /\ UNCHANGED registry_vars
    /\ UNCHANGED <<handler_vars, call_vars, portfolio_vars, loop_vars, twin_vars>>
    /\ UNCHANGED lifecycle_vars

\* SMAStrategy.start: the loop sees is_running false and the finally block
\* cancels the stream task
SMA_start_exit ==
    /\ impl = "sma"
    /\ start_pc = "looping"
    /\ ~is_running
    /\ stream_task' = IF stream_task = "running" THEN "cancelled"
                      ELSE stream_task
    /\ start_pc' = "returned"
    /\ stats' = <<>>
    /\ UNCHANGED <<impl, feed, fast_period, slow_period, prices, position,
                   last_signal, trade_count, trading_client, is_running,
                   data_stream, stop_pc, fill_checks, fed, orders, signals,
                   bar_result>>
    /\ UNCHANGED runner_vars
    /\ UNCHANGED registry_vars
    /\ UNCHANGED <<handler_vars, call_vars, portfolio_vars, loop_vars, twin_vars>>
    /\ UNCHANGED lifecycle_vars

\* SMAStrategy.stop up to its sleep
SMA_stop ==
    /\ impl = "sma"
    /\ stop_pc = "idle"
    /\ is_running' = FALSE
    /\ stop_pc' = "sleeping"
    /\ stats' = <<>>
    /\ UNCHANGED <<impl, feed, fast_period, slow_period, prices, position,
                   last_signal, trade_count, trading_client, data_stream,
                   stream_task, start_pc, fill_checks, fed, orders, signals,
                   bar_result>>
    /\ UNCHANGED runner_vars
    /\ UNCHANGED registry_vars
    /\ UNCHANGED <<handler_vars, call_vars, portfolio_vars, loop_vars, twin_vars>>
    /\ UNCHANGED lifecycle_vars

\* SMAStrategy.stop after its sleep: close the stream
SMA_stop_close ==
    /\ impl = "sma"
    /\ stop_pc = "sleeping"
    /\ data_stream' = IF data_stream # "None" THEN "closed" ELSE data_stream
    /\ stop_pc' = "idle"
    /\ stats' = <<>>
    /\ UNCHANGED <<impl, feed, fast_period, slow_period, prices, position,
                   last_signal, trade_count, trading_client, is_running,
                   stream_task, start_pc, fill_checks, fed, orders, signals,
                   bar_result>>
    /\ UNCHANGED runner_vars
    /\ UNCHANGED registry_vars
    /\ UNCHANGED <<handler_vars, call_vars, portfolio_vars, loop_vars, twin_vars>>
    /\ UNCHANGED lifecycle_vars

\* SMAStrategy._handle_bar, called by the stream for one bar
SMA_bar ==
    /\ impl = "sma"
    /\ Delivering
    /\ \E price \in NextCloses, submit_ok \in BOOLEAN :
          ApplyBar(SMA_handle_bar(prices, position, last_signal, trade_count,
                                  fast_period, slow_period, price, submit_ok),
                   price)
    /\ UNCHANGED <<impl, feed, fast_period, slow_period, trading_client, is_running,
                   data_stream, stream_task, start_pc, stop_pc, fill_checks>>
    /\ UNCHANGED runner_vars
    /\ UNCHANGED registry_vars
    /\ UNCHANGED <<handler_vars, call_vars, portfolio_vars, loop_vars, twin_vars>>
    /\ UNCHANGED lifecycle_vars

\* get_stats of either strategy class: the local counters
get_stats ==
    [trade_count |-> trade_count, position |-> position,
     bars_collected |-> Len(prices), ready |-> Len(prices) >= slow_period]

Strategy_get_stats ==
    /\ stats = <<>>
    /\ stats' = <<get_stats>>
    /\ UNCHANGED <<impl, feed, fast_period, slow_period, prices, position,
                   last_signal, trade_count, trading_client, is_running,
                   data_stream, stream_task, start_pc, stop_pc, fill_checks,
                   fed, orders, signals, bar_result>>
    /\ UNCHANGED runner_vars
    /\ UNCHANGED registry_vars
    /\ UNCHANGED <<handler_vars, call_vars, portfolio_vars, loop_vars, twin_vars>>
    /\ UNCHANGED lifecycle_vars

\* DurianTradingBot.start: subscribe and run the stream
Bot_start ==
    /\ impl = "bot"
    /\ data_stream = "created"
    /\ data_stream' = "subscribed"
    /\ stream_task' = "running"
    /\ start_pc' = "looping"
    /\ stats' = <<>>
    /\ UNCHANGED <<impl, feed, fast_period, slow_period, prices, position,
                   last_signal, trade_count, trading_client, is_running,
                   stop_pc, fill_checks, fed, orders, signals, bar_result>>
    /\ UNCHANGED runner_vars
    /\ UNCHANGED registry_vars
    /\ UNCHANGED <<handler_vars, call_vars, portfolio_vars, loop_vars, twin_vars>>
    /\ UNCHANGED lifecycle_vars

\* DurianTradingBot.handle_bar, called by the stream for one bar; an
\* accepted order schedules a check_order_fill task
Bot_bar ==
    /\ impl = "bot"
    /\ Delivering
    /\ \E price \in NextCloses, submit_ok \in BOOLEAN :
          LET r == handle_bar(prices, position, last_signal, trade_count,
                              fast_period, slow_period, price, submit_ok)
          IN  /\ ApplyBar(r, price)
              /\ fill_checks' = IF r.res.submit = "ok"
                                THEN fill_checks + 1 ELSE fill_checks
    /\ fill_seen' = None
    /\ UNCHANGED <<impl, feed, fast_period, slow_period, trading_client, is_running,
                   data_stream, stream_task, start_pc, stop_pc>>
    /\ UNCHANGED runner_vars
    /\ UNCHANGED registry_vars
    /\ UNCHANGED <<in_flight, call_vars, portfolio_vars, loop_vars, twin_vars>>
    /\ UNCHANGED lifecycle_vars

\* What get_order_by_id may come back with: an order that is FILLED, an
\* order in any other status, or an exception.
OrderStatuses == {"filled", "not_filled", "error"}

\* check_order_fill that undoes the position when the order did not fill.
check_order_fill_rollback(q, pos, ls, n, status) ==
    [prices |-> q, position |-> IF status = "filled" THEN pos ELSE None,
     last_signal |-> ls, trade_count |-> n, seen |-> status]

\* check_order_fill: every branch only logs.  The result is the strategy's
\* fields after the call and the status that was seen.
check_order_fill(q, pos, ls, n, status) ==
    [prices |-> q, position |-> pos, last_signal |-> ls, trade_count |-> n,
     seen |-> status]

\* DurianTradingBot.check_order_fill, run by the event loop after its sleep
Bot_check_order_fill ==
    /\ impl = "bot"
    /\ stream_task = "running"
    /\ fill_checks > 0
    /\ \E status \in OrderStatuses :
          LET r == check_order_fill(prices, position, last_signal,
                                    trade_count, status)
          IN  /\ prices' = r.prices
              /\ position' = r.position
              /\ last_signal' = r.last_signal
              /\ trade_count' = r.trade_count
              /\ fill_seen' = r.seen
    /\ fill_checks' = fill_checks - 1
    /\ stats' = <<>>
    /\ UNCHANGED <<impl, feed, fast_period, slow_period, trading_client,
                   is_running, data_stream, stream_task, start_pc, stop_pc,
                   fed, orders, signals, bar_result>>
    /\ UNCHANGED runner_vars
    /\ UNCHANGED registry_vars
    /\ UNCHANGED <<in_flight, call_vars, portfolio_vars, loop_vars, twin_vars>>
    /\ UNCHANGED lifecycle_vars

\* DurianTradingBot.start's except branches and shutdown: the process exits
Bot_shutdown ==
    /\ impl = "bot"
    /\ stream_task = "running"
    /\ stream_task' = "cancelled"
    /\ start_pc' = "returned"
    /\ fill_checks' = 0
    /\ stats' = <<>>
    /\ UNCHANGED <<impl, feed, fast_period, slow_period, prices, position,
                   last_signal, trade_count, trading_client, is_running,
                   data_stream, stop_pc, fed, orders, signals, bar_result>>
    /\ UNCHANGED runner_vars
    /\ UNCHANGED registry_vars
    /\ UNCHANGED <<handler_vars, call_vars, portfolio_vars, loop_vars, twin_vars>>
    /\ UNCHANGED lifecycle_vars

\* An SMAStrategy as constructed, kept beside the bot to be given the same
\* bars and the same submission outcomes.
TwinInit ==
    twin = <<[prices |-> <<>>, position |-> None, last_signal |-> None,
              trade_count |-> 0, orders |-> <<>>, bar_result |-> NoResult]>>

\* One bar, handled by DurianTradingBot.handle_bar and by
\* SMAStrategy._handle_bar of the twin, with the same close and the same
\* outcome of submit_order.
Both_bar ==
    /\ impl = "bot"
    /\ Delivering
    /\ twin # <<>>
    /\ \E price \in NextCloses, submit_ok \in BOOLEAN :
          LET r == handle_bar(prices, position, last_signal, trade_count,
                              fast_period, slow_period, price, submit_ok)
              t == twin[1]
              u == SMA_handle_bar(t.prices, t.position, t.last_signal,
                                  t.trade_count, fast_period, slow_period,
                                  price, submit_ok)
          IN  /\ ApplyBar(r, price)
              /\ fill_checks' = IF r.res.submit = "ok"
                                THEN fill_checks + 1 ELSE fill_checks
              /\ twin' = <<[prices |-> u.prices, position |-> u.position,
                            last_signal |-> u.last_signal,
                            trade_count |-> u.trade_count,
                            orders |-> IF u.res.submit = "ok"
                                       THEN Append(t.orders, u.res.emitted)
                                       ELSE t.orders,
                            bar_result |-> u.res]>>
    /\ fill_seen' = None
    /\ UNCHANGED <<impl, feed, fast_period, slow_period, trading_client, is_running,
                   data_stream, stream_task, start_pc, stop_pc>>
    /\ UNCHANGED runner_vars
    /\ UNCHANGED registry_vars
    /\ UNCHANGED <<in_flight, call_vars, portfolio_vars, loop_vars>>
    /\ UNCHANGED lifecycle_vars

Init ==
    /\ StrategyInit(Configs, "any")
    /\ RunnerIdle
    /\ RegistryInit
    /\ LifecycleInit
    /\ HandlerInit
    /\ CallInit
    /\ LoopInit
    /\ TwinIdle
    /\ PortfolioIdle

Next ==
    \/ SMA_initialize
    \/ SMA_start
    \/ SMA_start_exit
    \/ SMA_stop
    \/ SMA_stop_close
    \/ SMA_bar
    \/ Strategy_get_stats
    \/ Bot_start
    \/ Bot_bar
    \/ Bot_check_order_fill
    \/ Bot_shutdown

Spec == Init /\ [][Next]_vars

\* The bot and an SMAStrategy with the same periods, side by side.
InitEquiv ==
    /\ StrategyInit(Configs, "any")
    /\ impl = "bot"
    /\ RunnerIdle
    /\ RegistryInit
    /\ LifecycleInit
    /\ HandlerInit
    /\ CallInit
    /\ LoopInit
    /\ TwinInit
    /\ PortfolioIdle

NextEquiv ==
    \/ Bot_start
    \/ Both_bar
    \/ Bot_check_order_fill
    \/ Bot_shutdown

SpecEquiv == InitEquiv /\ [][NextEquiv]_vars

\* --------------------------------- strategies/registry.py: StrategyRegistry
\* The registry maps each registered name to the class registered under it.
Names == {"sma", "gemini-portfolio", "momentum"}

ClassOf(name) ==
    IF name = "sma" THEN "SMAStrategy"
    ELSE IF name = "gemini-portfolio" THEN "GeminiPortfolioStrategy"
    ELSE "MomentumStrategy"

\* is_registered that knows only the names of the package's own classes.
is_registered_builtin(name, reg) == name \in {"sma", "gemini-portfolio"}

is_registered(name, reg) == name \in DOMAIN reg

list_strategies(reg) == DOMAIN reg

\* The strategy classes the package defines.
Classes == {"SMAStrategy", "GeminiPortfolioStrategy"}

\* The keyword arguments create() may be given: none, or the ones
\* _get_strategy_config reads from the environment for a name.
Cfgs == {"{}", "sma-env", "gemini-env"}

\* register that keeps the class a name already has.
register_keep_first(name, strategy_class, reg) ==
    [n \in DOMAIN reg \cup {name} |->
        IF n \in DOMAIN reg THEN reg[n] ELSE strategy_class]

\* StrategyRegistry.register: cls._strategies[name] = strategy_class
register(name, strategy_class, reg) ==
    [n \in DOMAIN reg \cup {name} |->
        IF n = name THEN strategy_class ELSE reg[n]]

\* TradingStrategy.__init__ as create() runs it for the class found:
\* strategy_class(**config)
create(name, cfg, reg) ==
    [name |-> name, cls |-> reg[name], config |-> cfg,
     trading_client |-> FALSE, is_running |-> FALSE, scheduler |-> "None",
     start |-> "none", inits |-> 0, starts |-> 0, stops |-> 0]

\* A create that registers the base class under the unknown name it was
\* asked for.
create_unknown_registers(name, reg) ==
    [outcome |-> "ValueError", registry |-> register(name, "TradingStrategy", reg)]

\* StrategyRegistry.create for a name that is not in cls._strategies: the
\* ValueError, and the mapping it leaves behind.
create_unknown(name, reg) ==
    [outcome |-> "ValueError", registry |-> reg]

\* StrategyRegistry.register(name, strategy_class)
Registry_register ==
    /\ Len(reg_log) < MaxRegs
    /\ \E name \in Names, strategy_class \in Classes :
          /\ registry' = register(name, strategy_class, registry)
          /\ reg_log' = Append(reg_log, <<name, strategy_class>>)
    /\ UNCHANGED <<create_calls, n_instances, create_result>>
    /\ UNCHANGED <<variant, platform, env_ok, strategy_names, main_pc,
                   load_i, strategies, created, initialized, load_failed,
                   handlers, exit_code>>
    /\ UNCHANGED teardown_vars
    /\ UNCHANGED strategy_vars
    /\ UNCHANGED lifecycle_vars
    /\ UNCHANGED <<handler_vars, call_vars, portfolio_vars, loop_vars, twin_vars>>

\* StrategyRegistry.create(name, **config)
Registry_create ==
    /\ create_calls < MaxCreates
    /\ create_calls' = create_calls + 1
    /\ \E name \in Names, cfg \in Cfgs :
          IF name \notin DOMAIN registry
          THEN LET r == create_unknown(name, registry)
               IN  /\ create_result' = [outcome |-> r.outcome, name |-> name,
                                        config |-> cfg, inst |-> <<>>]
                   /\ registry' = r.registry
                   /\ UNCHANGED n_instances
          ELSE /\ create_result' = [outcome |-> "instance", name |-> name,
                                    config |-> cfg,
                                    inst |-> <<create(name, cfg, registry)>>]
               /\ n_instances' = n_instances + 1
               /\ UNCHANGED registry
    /\ UNCHANGED reg_log
    /\ UNCHANGED <<variant, platform, env_ok, strategy_names, main_pc,
                   load_i, strategies, created, initialized, load_failed,
                   handlers, exit_code>>
    /\ UNCHANGED teardown_vars
    /\ UNCHANGED strategy_vars
    /\ UNCHANGED lifecycle_vars
    /\ UNCHANGED <<handler_vars, call_vars, portfolio_vars, loop_vars, twin_vars>>

\* ------------------------------------------- bot_runner.py: main, BotRunner
\* main's validation loop lets the names through
validated_first_only(names, reg) == is_registered(names[1], reg)

validated(names, reg) ==
    \A i \in 1..Len(names) : is_registered(names[i], reg)

\* where main() is after load_strategies' except block: sys.exit(1)
after_load_error_continue == "load"

after_load_error == "exited"

\* BotRunner._get_strategy_config: the keyword arguments for a name;
\* bot/bot_runner.py passes none.
get_strategy_config(v, name) ==
    IF v = "bot" THEN "{}"
    ELSE IF name = "sma" THEN "sma-env"
    ELSE IF name = "gemini-portfolio" THEN "gemini-env"
    ELSE "{}"

\* The names requested: STRATEGIES split at the commas, never empty.
Requests ==
    UNION {[1..n -> Names] : n \in 1..MaxRequested}

\* bot_runner.py imports SMAStrategy and GeminiPortfolioStrategy, which
\* register themselves as "sma" and "gemini-portfolio"; no other module
\* registers anything, and bot/bot_runner.py imports only the package.
Registries(v) ==
    {[n \in R |-> ClassOf(n)] :
        R \in {X \in SUBSET {"sma", "gemini-portfolio"} :
                 v = "root" => {"sma", "gemini-portfolio"} \subseteq X}}

RunnerInit ==
    /\ variant \in {"root", "bot"}
    /\ platform \in {"win32", "posix"}
    /\ env_ok \in BOOLEAN
    /\ registry \in Registries(variant)
    /\ strategy_names \in Requests
    /\ main_pc = "validate"
    /\ load_i = 1
    /\ strategies = <<>>
    /\ created = <<>>
    /\ initialized = <<>>
    /\ load_failed = 0
    /\ handlers = FALSE
    /\ exit_code = None
    /\ TeardownInit

\* main: every requested name must be registered, else sys.exit(1)
Main_validate ==
    /\ main_pc = "validate"
    /\ IF validated(strategy_names, registry)
       THEN main_pc' = "setup" /\ UNCHANGED exit_code
       ELSE main_pc' = "exited" /\ exit_code' = "1"
    /\ UNCHANGED <<variant, platform, env_ok, registry, strategy_names,
                   load_i, strategies, created, initialized, load_failed,
                   handlers>>
    /\ UNCHANGED teardown_vars
    /\ UNCHANGED strategy_vars
    /\ UNCHANGED registry_vars
    /\ UNCHANGED <<handler_vars, call_vars, portfolio_vars, loop_vars, twin_vars>>
    /\ UNCHANGED lifecycle_vars

\* main: BotRunner(names), _validate_environment (bot_runner.py only) and
\* the signal handlers; bot/bot_runner.py never imports signal
Main_setup ==
    /\ main_pc = "setup"
    /\ IF variant = "root" /\ ~env_ok
       THEN main_pc' = "exited" /\ exit_code' = "1" /\ UNCHANGED handlers
       ELSE IF platform = "win32"
       THEN main_pc' = "load" /\ UNCHANGED <<exit_code, handlers>>
       ELSE IF variant = "bot"
       THEN main_pc' = "exited" /\ exit_code' = "NameError"
            /\ UNCHANGED handlers
       ELSE main_pc' = "load" /\ handlers' = TRUE /\ UNCHANGED exit_code
    /\ UNCHANGED <<variant, platform, env_ok, registry, strategy_names,
                   load_i, strategies, created, initialized, load_failed>>
    /\ UNCHANGED teardown_vars
    /\ UNCHANGED strategy_vars
    /\ UNCHANGED registry_vars
    /\ UNCHANGED <<handler_vars, call_vars, portfolio_vars, loop_vars, twin_vars>>
    /\ UNCHANGED lifecycle_vars

\* ------------------- the loaded instances, as the runner's calls change them
\* initialize(trading_client) returning: the client is stored, and
\* GeminiPortfolioStrategy creates its scheduler.
inst_initialize(inst) ==
    [inst EXCEPT !.trading_client = TRUE,
                 !.inits = @ + 1,
                 !.scheduler = IF inst.cls = "GeminiPortfolioStrategy"
                               THEN "created" ELSE @]

\* start() up to its first sleep: RuntimeError unless is_ready(); else
\* is_running is set, GeminiPortfolioStrategy gives its scheduler the job
\* and starts it, and the run-loop is entered.
inst_start(inst) ==
    IF ~inst.trading_client
    THEN [inst EXCEPT !.starts = @ + 1, !.start = "raised"]
    ELSE [inst EXCEPT !.starts = @ + 1,
                      !.is_running = TRUE,
                      !.scheduler = IF inst.cls = "GeminiPortfolioStrategy"
                                    THEN "running" ELSE @,
                      !.start = "looping"]

\* A stop() that shuts the scheduler down and forgets the flag.
inst_stop_keeps_running(inst) ==
    [inst EXCEPT !.stops = @ + 1,
                 !.scheduler = IF @ = "running" THEN "shutdown" ELSE @]

\* stop() up to its first await or its end: is_running is cleared first;
\* GeminiPortfolioStrategy then shuts a running scheduler down.
inst_stop(inst) ==
    [inst EXCEPT !.is_running = FALSE,
                 !.stops = @ + 1,
                 !.scheduler = IF @ = "running" THEN "shutdown" ELSE @]

\* SMAStrategy.stop sleeps half a second before it closes the stream;
\* GeminiPortfolioStrategy.stop has no await.
stop_suspends(inst) == inst.cls = "SMAStrategy"

\* GeminiPortfolioStrategy.stop calls scheduler.shutdown unguarded: on a
\* scheduler that is not running the library may raise.  SMAStrategy.stop
\* closes its stream inside try/except.
stop_may_raise(inst) ==
    /\ inst.cls = "GeminiPortfolioStrategy"
    /\ inst.scheduler \in {"created", "shutdown"}

\* A gather that awaits each start() before it begins the next.
gather_may_begin_in_turn(strats, i) ==
    \A j \in 1..(i - 1) : strats[j].start = "returned"

\* BotRunner.run: asyncio.gather makes a task of every start() at once, so
\* the i-th start() may begin whatever the others are doing.
gather_may_begin(strats, i) == TRUE

\* An execution of shutdown(): who called it, where it is, the index of the
\* strategy it is at, the strategies it has called stop() on and the ones
\* whose stop() raised.
NewShutdown(caller) ==
    [by |-> caller, pc |-> "created", i |-> 1, stopped |-> {}, raised |-> {}]

\* shutdown() without the try: the error of stop() ends it.
on_stop_error_abort(i, n) == [pc |-> "raised", i |-> i]

\* BotRunner.shutdown, the except branch and the normal way out of one turn
\* of the loop: on to the next strategy, or to the closing log lines.
on_stop_error(i, n) == [pc |-> IF i >= n THEN "done" ELSE "loop", i |-> i + 1]

\* The process is alive and its event loop runs tasks.
LoopRuns == main_pc \in {"gather", "shutdown"}

\* BotRunner.load_strategies: one turn of the loop.  ctor_ok: the config
\* parses and the constructor returns; init_ok: initialize() returns.
Load_strategy ==
    /\ main_pc = "load"
    /\ load_i <= Len(strategy_names)
    /\ \E ctor_ok \in BOOLEAN, init_ok \in BOOLEAN :
          LET name == strategy_names[load_i]
          IN  IF ~is_registered(name, registry) \/ ~ctor_ok
              THEN /\ load_failed' = load_i
                   /\ main_pc' = after_load_error
                   /\ exit_code' = (IF after_load_error = "exited" THEN "1"
                                    ELSE exit_code)
                   /\ UNCHANGED <<created, initialized, strategies>>
              ELSE IF ~init_ok
              THEN /\ created' = Append(created, name)
                   /\ initialized' = Append(initialized, name)
                   /\ load_failed' = load_i
                   /\ main_pc' = after_load_error
                   /\ exit_code' = (IF after_load_error = "exited" THEN "1"
                                    ELSE exit_code)
                   /\ UNCHANGED strategies
              ELSE /\ created' = Append(created, name)
                   /\ initialized' = Append(initialized, name)
                   /\ strategies' =
                         Append(strategies,
                                inst_initialize(
                                    create(name,
                                           get_strategy_config(variant, name),
                                           registry)))
                   /\ UNCHANGED <<load_failed, main_pc, exit_code>>
    /\ load_i' = load_i + 1
    /\ UNCHANGED <<variant, platform, env_ok, registry, strategy_names,
                   handlers>>
    /\ UNCHANGED teardown_vars
    /\ UNCHANGED strategy_vars
    /\ UNCHANGED registry_vars
    /\ UNCHANGED <<handler_vars, call_vars, portfolio_vars, loop_vars, twin_vars>>
    /\ UNCHANGED lifecycle_vars

\* BotRunner.run up to its gather: a start() coroutine per loaded strategy
\* and _wait_for_shutdown, all made tasks at once
Run_begin ==
    /\ main_pc = "load"
    /\ load_i > Len(strategy_names)
    /\ IF strategies = <<>>
       THEN /\ main_pc' = "exited"
            /\ exit_code' = "0"
            /\ UNCHANGED <<strategies, wait_pc>>
       ELSE /\ main_pc' = "gather"
            /\ strategies' = [i \in 1..Len(strategies) |->
                                 [strategies[i] EXCEPT !.start = "scheduled"]]
            /\ wait_pc' = "waiting"
            /\ UNCHANGED exit_code
    /\ UNCHANGED <<variant, platform, env_ok, registry, strategy_names,
                   load_i, created, initialized, load_failed, handlers,
                   sig_count, shutdowns, shutdown_event>>
    /\ UNCHANGED strategy_vars
    /\ UNCHANGED registry_vars
    /\ UNCHANGED <<handler_vars, call_vars, portfolio_vars, loop_vars, twin_vars>>
    /\ UNCHANGED lifecycle_vars

\* What the actions of the running phase leave alone.
RunningFrame ==
    /\ UNCHANGED <<variant, platform, env_ok, registry, strategy_names,
                   load_i, created, initialized, load_failed, handlers>>
    /\ UNCHANGED strategy_vars
    /\ UNCHANGED registry_vars
    /\ UNCHANGED <<handler_vars, call_vars, portfolio_vars, twin_vars>>
    /\ UNCHANGED lifecycle_vars

\* start() of the i-th loaded strategy, up to its first sleep
Strategy_start_of(i) ==
    /\ main_pc = "gather"
    /\ strategies[i].start = "scheduled"
    /\ gather_may_begin(strategies, i)
    /\ strategies' = [strategies EXCEPT ![i] = inst_start(@)]
    /\ UNCHANGED <<main_pc, exit_code>>
    /\ UNCHANGED teardown_vars
    /\ RunningFrame
    /\ UNCHANGED loop_vars

Strategy_start == \E i \in 1..Len(strategies) : Strategy_start_of(i)

\* start() of a loaded strategy: the run-loop wakes, sees is_running false
\* and the call returns (SMAStrategy cancels its stream task on the way).
Strategy_start_return ==
    /\ main_pc = "gather"
    /\ \E i \in 1..Len(strategies) :
          /\ strategies[i].start = "looping"
          /\ ~strategies[i].is_running
          /\ strategies' = [strategies EXCEPT ![i].start = "returned"]
    /\ UNCHANGED <<main_pc, exit_code>>
    /\ UNCHANGED teardown_vars
    /\ RunningFrame
    /\ UNCHANGED loop_vars

\* SIGINT or SIGTERM reaches the process once the handlers are installed:
\* the event loop is woken and will run signal_handler as a callback.
\* main() does not give the loop control before run() awaits its gather,
\* so a signal that comes while the strategies are loaded waits.
Signal_arrive ==
    /\ handlers
    /\ main_pc \in {"load", "gather"}
    /\ Len(sig_queue) < MaxSignals
    /\ sig_queue' = Append(sig_queue, [at |-> main_pc, handled |-> FALSE])
    /\ UNCHANGED <<main_pc, exit_code, strategies>>
    /\ UNCHANGED teardown_vars
    /\ RunningFrame

\* A loop that runs the callback of a signal as soon as run() has begun.
callbacks_in_order_any(strats) == TRUE

\* The event loop runs callbacks in the order they were queued, and gather
\* queued the first step of every start() before main first gave the loop
\* control, so signal_handler runs after those steps.
callbacks_in_order(strats) ==
    \A i \in 1..Len(strats) : strats[i].start # "scheduled"

\* main's signal_handler for SIGINT or SIGTERM: a new task running
\* shutdown().
Signal_handler ==
    /\ handlers
    /\ main_pc = "gather"
    /\ callbacks_in_order(strategies)
    /\ Pending(sig_queue) # {}
    /\ sig_queue' =
          [sig_queue EXCEPT
              ![CHOOSE i \in Pending(sig_queue) :
                   \A j \in Pending(sig_queue) : i <= j].handled = TRUE]
    /\ sig_count' = sig_count + 1
    /\ shutdowns' = Append(shutdowns, NewShutdown("signal"))
    /\ UNCHANGED <<main_pc, exit_code, strategies, shutdown_event, wait_pc>>
    /\ RunningFrame

\* main's except KeyboardInterrupt: without signal handlers an interrupt
\* that strikes inside run() before its gather reaches main, which awaits
\* shutdown() itself.  No start() has been scheduled.
Main_interrupt ==
    /\ platform = "win32"
    /\ ~handlers
    /\ main_pc = "load"
    /\ load_i > Len(strategy_names)
    /\ strategies # <<>>
    /\ main_pc' = "shutdown"
    /\ shutdowns' = Append(shutdowns, NewShutdown("main"))
    /\ UNCHANGED <<exit_code, strategies, sig_count, shutdown_event, wait_pc>>
    /\ RunningFrame
    /\ UNCHANGED loop_vars

\* BotRunner.shutdown, up to its loop: shutdown_event.set()
Shutdown_set ==
    /\ LoopRuns
    /\ \E k \in 1..Len(shutdowns) :
          /\ shutdowns[k].pc = "created"
          /\ shutdowns' = [shutdowns EXCEPT ![k].pc =
                              IF strategies = <<>> THEN "done" ELSE "loop"]
    /\ shutdown_event' = TRUE
    /\ UNCHANGED <<main_pc, exit_code, strategies, sig_count, wait_pc>>
    /\ RunningFrame
    /\ UNCHANGED loop_vars

\* BotRunner.shutdown, one turn of its loop: await strategy.stop() inside
\* try/except Exception.  The turn ends with the stop() of a
\* GeminiPortfolioStrategy and is suspended in the stop() of an SMAStrategy.
Shutdown_stop ==
    /\ LoopRuns
    /\ \E k \in 1..Len(shutdowns) :
          LET sd == shutdowns[k]
              i == sd.i
              n == Len(strategies)
          IN  /\ sd.pc = "loop"
              /\ strategies' = [strategies EXCEPT ![i] = inst_stop(@)]
              /\ IF stop_suspends(strategies[i])
                 THEN shutdowns' =
                        [shutdowns EXCEPT ![k].pc = "sleeping",
                                          ![k].stopped = @ \cup {i}]
                 ELSE \E lib_raises \in BOOLEAN :
                        IF stop_may_raise(strategies[i]) /\ lib_raises
                        THEN shutdowns' =
                               [shutdowns EXCEPT
                                  ![k].pc = on_stop_error(i, n).pc,
                                  ![k].i = on_stop_error(i, n).i,
                                  ![k].stopped = @ \cup {i},
                                  ![k].raised = @ \cup {i}]
                        ELSE shutdowns' =
                               [shutdowns EXCEPT
                                  ![k].pc = IF i >= n THEN "done" ELSE "loop",
                                  ![k].i = i + 1,
                                  ![k].stopped = @ \cup {i}]
    /\ UNCHANGED <<main_pc, exit_code, sig_count, shutdown_event, wait_pc>>
    /\ RunningFrame
    /\ UNCHANGED loop_vars

\* SMAStrategy.stop after its sleep, inside shutdown's loop: the stream is
\* closed inside try/except and the turn of the loop ends.
Shutdown_stop_close ==
    /\ LoopRuns
    /\ \E k \in 1..Len(shutdowns) :
          LET sd == shutdowns[k]
          IN  /\ sd.pc = "sleeping"
              /\ shutdowns' =
                   [shutdowns EXCEPT
                      ![k].pc = IF sd.i >= Len(strategies) THEN "done"
                                ELSE "loop",
                      ![k].i = sd.i + 1]
    /\ UNCHANGED <<main_pc, exit_code, strategies, sig_count, shutdown_event,
                   wait_pc>>
    /\ RunningFrame
    /\ UNCHANGED loop_vars

\* _wait_for_shutdown: the event is set.  bot_runner.py returns;
\* bot/bot_runner.py goes on to await shutdown() itself.
Wait_return ==
    /\ main_pc = "gather"
    /\ wait_pc = "waiting"
    /\ shutdown_event
    /\ IF variant = "root"
       THEN wait_pc' = "returned" /\ UNCHANGED shutdowns
       ELSE /\ wait_pc' = "shutdown"
            /\ shutdowns' = Append(shutdowns, NewShutdown("wait"))
    /\ UNCHANGED <<main_pc, exit_code, strategies, sig_count, shutdown_event>>
    /\ RunningFrame
    /\ UNCHANGED loop_vars

\* _wait_for_shutdown has returned, its own shutdown() included.
WaitReturned ==
    \/ wait_pc = "returned"
    \/ /\ wait_pc = "shutdown"
       /\ \E k \in 1..Len(shutdowns) :
             shutdowns[k].by = "wait" /\ shutdowns[k].pc = "done"

\* BotRunner.run: gather has every result, run() and main() return and
\* asyncio.run cancels the tasks that are left.
Run_return ==
    /\ main_pc = "gather"
    /\ \A i \in 1..Len(strategies) : strategies[i].start = "returned"
    /\ WaitReturned
    /\ main_pc' = "exited"
    /\ exit_code' = "0"
    /\ shutdowns' = [k \in 1..Len(shutdowns) |->
                       IF shutdowns[k].pc = "done" THEN shutdowns[k]
                       ELSE [shutdowns[k] EXCEPT !.pc = "cancelled"]]
    /\ UNCHANGED <<strategies, sig_count, shutdown_event, wait_pc>>
    /\ RunningFrame
    /\ UNCHANGED loop_vars

\* main: the shutdown() awaited in the except branch has returned
Main_return ==
    /\ main_pc = "shutdown"
    /\ \E k \in 1..Len(shutdowns) :
          shutdowns[k].by = "main" /\ shutdowns[k].pc = "done"
    /\ main_pc' = "exited"
    /\ exit_code' = "0"
    /\ UNCHANGED <<strategies, sig_count, shutdowns, shutdown_event, wait_pc>>
    /\ RunningFrame
    /\ UNCHANGED loop_vars

\* The strategy of the signal-engine model, idle while the runner is modelled.
StrategyIdle ==
    StrategyInit({<<FAST_PERIOD, SLOW_PERIOD>>}, "any") /\ impl = "sma"

InitRunner == StrategyIdle /\ RunnerInit /\ RegistryInit /\ LifecycleInit
    /\ HandlerInit /\ CallInit /\ PortfolioIdle
    /\ LoopInit /\ TwinIdle

NextRunner ==
    \/ Main_validate
    \/ Main_setup
    \/ Load_strategy
    \/ Run_begin
    \/ Strategy_start
    \/ Strategy_start_return
    \/ Signal_arrive
    \/ Signal_handler
    \/ Main_interrupt
    \/ Shutdown_set
    \/ Shutdown_stop
    \/ Shutdown_stop_close
    \/ Wait_return
    \/ Run_return
    \/ Main_return

SpecRunner == InitRunner /\ [][NextRunner]_vars

\* The event loop runs every task that is ready: the steps of the start()
\* calls, of the shutdown() executions, of _wait_for_shutdown and of main.
\* Signals and interrupts come when they come.
RunnerFairness ==
    /\ WF_vars(Main_validate)
    /\ WF_vars(Main_setup)
    /\ WF_vars(Load_strategy)
    /\ WF_vars(Run_begin)
    /\ WF_vars(Strategy_start)
    /\ WF_vars(Strategy_start_return)
    /\ WF_vars(Signal_handler)
    /\ WF_vars(Shutdown_set)
    /\ WF_vars(Shutdown_stop)
    /\ WF_vars(Shutdown_stop_close)
    /\ WF_vars(Wait_return)
    /\ WF_vars(Run_return)
    /\ WF_vars(Main_return)

SpecRunnerFair == SpecRunner /\ RunnerFairness

\* ------------------------------------- the runner when a start() call fails
\* GeminiPortfolioStrategy.start sets is_running and then calls
\* scheduler.add_job, scheduler.start and the job's trigger outside any
\* try: when one of them raises, start() raises with is_running set and
\* the scheduler as far as it got (sched).
inst_start_fails(inst, sched) ==
    [inst EXCEPT !.starts = @ + 1, !.is_running = TRUE, !.scheduler = sched,
                 !.start = "raised"]

\* start() of a loaded GeminiPortfolioStrategy raises in a scheduler call
Strategy_start_raise ==
    /\ main_pc = "gather"
    /\ \E i \in 1..Len(strategies), sched \in {"created", "running"} :
          /\ strategies[i].start = "scheduled"
          /\ strategies[i].cls = "GeminiPortfolioStrategy"
          /\ gather_may_begin(strategies, i)
          /\ strategies' = [strategies EXCEPT ![i] = inst_start_fails(@, sched)]
    /\ UNCHANGED <<main_pc, exit_code>>
    /\ UNCHANGED teardown_vars
    /\ RunningFrame
    /\ UNCHANGED loop_vars

\* The tasks that asyncio.run cancels when main() is over: a start() in
\* its run-loop or not begun ends there, with the flags of its strategy as
\* they are; stop() is called by nobody.
cancel_start(inst) ==
    IF inst.start \in {"scheduled", "looping"}
    THEN [inst EXCEPT !.start = "cancelled"] ELSE inst

\* BotRunner.run: gather passes the exception of a start() on at once;
\* run() catches only CancelledError and main() only KeyboardInterrupt, so
\* it leaves main() and asyncio.run cancels every task that is left.
Run_raise ==
    /\ main_pc = "gather"
    /\ \E i \in 1..Len(strategies) : strategies[i].start = "raised"
    /\ main_pc' = "exited"
    /\ exit_code' = "Exception"
    /\ strategies' = [i \in 1..Len(strategies) |-> cancel_start(strategies[i])]
    /\ shutdowns' = [k \in 1..Len(shutdowns) |->
                       IF shutdowns[k].pc = "done" THEN shutdowns[k]
                       ELSE [shutdowns[k] EXCEPT !.pc = "cancelled"]]
    /\ wait_pc' = IF wait_pc = "waiting" THEN "cancelled" ELSE wait_pc
    /\ UNCHANGED <<sig_count, shutdown_event>>
    /\ RunningFrame
    /\ UNCHANGED loop_vars

\* Ctrl+C without signal handlers while run() awaits its gather: the main
\* task is cancelled, run() catches the CancelledError and returns, main()
\* returns, and the KeyboardInterrupt is logged by the module's last
\* lines.  Every task that is left is cancelled.
Run_interrupt ==
    /\ ~handlers
    /\ main_pc = "gather"
    /\ main_pc' = "exited"
    /\ exit_code' = "0"
    /\ strategies' = [i \in 1..Len(strategies) |-> cancel_start(strategies[i])]
    /\ shutdowns' = [k \in 1..Len(shutdowns) |->
                       IF shutdowns[k].pc = "done" THEN shutdowns[k]
                       ELSE [shutdowns[k] EXCEPT !.pc = "cancelled"]]
    /\ wait_pc' = IF wait_pc = "waiting" THEN "cancelled" ELSE wait_pc
    /\ UNCHANGED <<sig_count, shutdown_event>>
    /\ RunningFrame
    /\ UNCHANGED loop_vars

NextRunnerFaults ==
    \/ NextRunner
    \/ Strategy_start_raise
    \/ Run_raise
    \/ Run_interrupt

SpecRunnerFaults == InitRunner /\ [][NextRunnerFaults]_vars

\* The registry on its own: it starts empty, as the class attribute does,
\* and any caller may register and create.
InitRegistry == StrategyIdle /\ RunnerIdle /\ RegistryInit /\ LifecycleInit
    /\ HandlerInit /\ CallInit /\ PortfolioIdle
    /\ LoopInit /\ TwinIdle

NextRegistry ==
    \/ Registry_register
    \/ Registry_create

SpecRegistry == InitRegistry /\ [][NextRegistry]_vars

\* The runner up to the end of load_strategies, with the registry open to
\* any caller meanwhile: a strategy module imported late registers its
\* class.  The create calls are those of load_strategies.
NextLoading ==
    \/ Main_validate
    \/ Main_setup
    \/ Load_strategy
    \/ Registry_register

SpecLoading == InitRunner /\ [][NextLoading]_vars

\* ------------------------------ the strategy classes, called by any caller
\* The two strategy classes as objects whose methods any caller may call in
\* any order: initialize() once, start() and stop() up to MaxStarts and
\* MaxStops times.  No bars are delivered here.
LifecycleImpls == {"sma", "gemini"}

\* SMAStrategy.initialize: the client is stored and the stream subscribed
\* before get_account is called, which may raise.
SMA_initialize_call ==
    /\ impl = "sma"
    /\ init_state = "none"
    /\ trading_client' = TRUE
    /\ data_stream' = "subscribed"
    /\ \E account_ok \in BOOLEAN :
          init_state' = IF account_ok THEN "ok" ELSE "failed"
    /\ UNCHANGED <<scheduler, jobs, tasks_created, loops, start_calls,
                   stop_calls, start_result, stop_raised>>
    /\ UNCHANGED <<impl, feed, fast_period, slow_period, prices, position,
                   last_signal, trade_count, is_running, stream_task,
                   start_pc, stop_pc, fill_checks, stats, fed, orders,
                   signals, bar_result>>
    /\ UNCHANGED runner_vars
    /\ UNCHANGED registry_vars
    /\ UNCHANGED <<handler_vars, call_vars, portfolio_vars, loop_vars, twin_vars>>

\* SMAStrategy.start, called in whatever state the instance is, up to its
\* first sleep: is_ready() is the only guard.
SMA_start_call ==
    /\ impl = "sma"
    /\ start_calls < MaxStarts
    /\ start_calls' = start_calls + 1
    /\ IF ~trading_client
       THEN /\ start_result' = "raised"
            /\ start_pc' = IF loops = 0 THEN "raised" ELSE start_pc
            /\ UNCHANGED <<is_running, stream_task, tasks_created, loops>>
       ELSE /\ is_running' = TRUE
            /\ stream_task' = "running"
            /\ tasks_created' = tasks_created + 1
            /\ loops' = loops + 1
            /\ start_pc' = "looping"
            /\ start_result' = "looping"
    /\ UNCHANGED <<init_state, scheduler, jobs, stop_calls, stop_raised>>
    /\ UNCHANGED <<impl, feed, fast_period, slow_period, prices, position,
                   last_signal, trade_count, trading_client, data_stream,
                   stop_pc, fill_checks, stats, fed, orders, signals,
                   bar_result>>
    /\ UNCHANGED runner_vars
    /\ UNCHANGED registry_vars
    /\ UNCHANGED <<handler_vars, call_vars, portfolio_vars, loop_vars, twin_vars>>

\* SMAStrategy.start: one call's loop sees is_running false and its finally
\* block cancels the task self._stream_task holds.
SMA_start_return ==
    /\ impl = "sma"
    /\ loops > 0
    /\ ~is_running
    /\ loops' = loops - 1
    /\ stream_task' = IF stream_task = "running" THEN "cancelled"
                      ELSE stream_task
    /\ start_pc' = IF loops = 1 THEN "returned" ELSE "looping"
    /\ UNCHANGED <<init_state, scheduler, jobs, tasks_created, start_calls,
                   stop_calls, start_result, stop_raised>>
    /\ UNCHANGED <<impl, feed, fast_period, slow_period, prices, position,
                   last_signal, trade_count, trading_client, is_running,
                   data_stream, stop_pc, fill_checks, stats, fed, orders,
                   signals, bar_result>>
    /\ UNCHANGED runner_vars
    /\ UNCHANGED registry_vars
    /\ UNCHANGED <<handler_vars, call_vars, portfolio_vars, loop_vars, twin_vars>>

\* SMAStrategy.stop, called in whatever state the instance is, up to its
\* sleep; SMA_stop_close is the rest of the call.
SMA_stop_call ==
    /\ impl = "sma"
    /\ stop_pc = "idle"
    /\ stop_calls < MaxStops
    /\ stop_calls' = stop_calls + 1
    /\ is_running' = FALSE
    /\ stop_pc' = "sleeping"
    /\ stop_raised' = FALSE
    /\ UNCHANGED <<init_state, scheduler, jobs, tasks_created, loops,
                   start_calls, start_result>>
    /\ UNCHANGED <<impl, feed, fast_period, slow_period, prices, position,
                   last_signal, trade_count, trading_client, data_stream,
                   stream_task, start_pc, fill_checks, stats, fed, orders,
                   signals, bar_result>>
    /\ UNCHANGED runner_vars
    /\ UNCHANGED registry_vars
    /\ UNCHANGED <<handler_vars, call_vars, portfolio_vars, loop_vars, twin_vars>>

\* GeminiPortfolioStrategy.initialize: the client is stored first; without
\* GEMINI_API_KEY the call raises before the scheduler is created.
Gemini_initialize ==
    /\ impl = "gemini"
    /\ init_state = "none"
    /\ trading_client' = TRUE
    /\ \E gemini_key \in BOOLEAN :
          IF gemini_key
          THEN init_state' = "ok" /\ scheduler' = "created"
          ELSE init_state' = "failed" /\ UNCHANGED scheduler
    /\ UNCHANGED <<jobs, tasks_created, loops, start_calls, stop_calls,
                   start_result, stop_raised>>
    /\ UNCHANGED <<impl, feed, fast_period, slow_period, prices, position,
                   last_signal, trade_count, is_running, data_stream,
                   stream_task, start_pc, stop_pc, fill_checks, stats, fed,
                   orders, signals, bar_result>>
    /\ UNCHANGED runner_vars
    /\ UNCHANGED registry_vars
    /\ UNCHANGED <<handler_vars, call_vars, portfolio_vars, loop_vars, twin_vars>>

\* GeminiPortfolioStrategy.start, called in whatever state the instance
\* is, up to its first sleep.  is_running is set before the scheduler is
\* touched.  What add_job and scheduler.start() do on a scheduler that is
\* already running or was shut down is the scheduler library's business:
\* lib_ok chooses between their returning and their raising.
Gemini_start ==
    /\ impl = "gemini"
    /\ start_calls < MaxStarts
    /\ start_calls' = start_calls + 1
    /\ IF ~trading_client
       THEN /\ start_result' = "raised"
            /\ start_pc' = IF loops = 0 THEN "raised" ELSE start_pc
            /\ UNCHANGED <<is_running, scheduler, jobs, loops>>
       ELSE /\ is_running' = TRUE
            /\ IF scheduler = "None"
               THEN \* self.scheduler.add_job on None: AttributeError
                    /\ start_result' = "raised"
                    /\ start_pc' = IF loops = 0 THEN "raised" ELSE start_pc
                    /\ UNCHANGED <<scheduler, jobs, loops>>
               ELSE IF scheduler = "created"
               THEN /\ jobs' = jobs + 1
                    /\ scheduler' = "running"
                    /\ loops' = loops + 1
                    /\ start_pc' = "looping"
                    /\ start_result' = "looping"
               ELSE \E lib_ok \in BOOLEAN :
                    IF lib_ok
                    THEN /\ jobs' = jobs + 1
                         /\ scheduler' = "running"
                         /\ loops' = loops + 1
                         /\ start_pc' = "looping"
                         /\ start_result' = "looping"
                    ELSE /\ start_result' = "raised"
                         /\ start_pc' = IF loops = 0 THEN "raised"
                                        ELSE start_pc
                         /\ UNCHANGED <<scheduler, jobs, loops>>
    /\ UNCHANGED <<init_state, tasks_created, stop_calls, stop_raised>>
    /\ UNCHANGED <<impl, feed, fast_period, slow_period, prices, position,
                   last_signal, trade_count, trading_client, data_stream,
                   stream_task, stop_pc, fill_checks, stats, fed, orders,
                   signals, bar_result>>
    /\ UNCHANGED runner_vars
    /\ UNCHANGED registry_vars
    /\ UNCHANGED <<handler_vars, call_vars, portfolio_vars, loop_vars, twin_vars>>

\* GeminiPortfolioStrategy.start: one call's loop sees is_running false
Gemini_start_return ==
    /\ impl = "gemini"
    /\ loops > 0
    /\ ~is_running
    /\ loops' = loops - 1
    /\ start_pc' = IF loops = 1 THEN "returned" ELSE "looping"
    /\ UNCHANGED <<init_state, scheduler, jobs, tasks_created, start_calls,
                   stop_calls, start_result, stop_raised>>
    /\ UNCHANGED <<impl, feed, fast_period, slow_period, prices, position,
                   last_signal, trade_count, trading_client, is_running,
                   data_stream, stream_task, stop_pc, fill_checks, stats,
                   fed, orders, signals, bar_result>>
    /\ UNCHANGED runner_vars
    /\ UNCHANGED registry_vars
    /\ UNCHANGED <<handler_vars, call_vars, portfolio_vars, loop_vars, twin_vars>>

\* GeminiPortfolioStrategy.stop, called in whatever state the instance is.
\* scheduler.shutdown(wait=False) is not guarded: on a running scheduler
\* it returns; on one that is not running (never started, or shut down
\* already) the library decides between returning and raising.
Gemini_stop ==
    /\ impl = "gemini"
    /\ stop_calls < MaxStops
    /\ stop_calls' = stop_calls + 1
    /\ is_running' = FALSE
    /\ IF scheduler = "None"
       THEN stop_raised' = FALSE /\ UNCHANGED scheduler
       ELSE IF scheduler = "running"
       THEN stop_raised' = FALSE /\ scheduler' = "shutdown"
       ELSE stop_raised' \in BOOLEAN /\ UNCHANGED scheduler
    /\ UNCHANGED <<init_state, jobs, tasks_created, loops, start_calls,
                   start_result>>
    /\ UNCHANGED <<impl, feed, fast_period, slow_period, prices, position,
                   last_signal, trade_count, trading_client, data_stream,
                   stream_task, start_pc, stop_pc, fill_checks, stats, fed,
                   orders, signals, bar_result>>
    /\ UNCHANGED runner_vars
    /\ UNCHANGED registry_vars
    /\ UNCHANGED <<handler_vars, call_vars, portfolio_vars, loop_vars, twin_vars>>

\* The keys get_stats fills in from the object itself
SMA_local_keys ==
    {"strategy", "symbol", "trade_count", "position", "bars_collected",
     "ready"}

Gemini_local_keys ==
    {"strategy", "portfolio_size", "model", "scheduler_running"}

\* The keys it adds from the broker's answers
SMA_equity_keys == {"current_equity", "initial_equity", "pnl", "pnl_pct"}

Gemini_equity_keys == {"equity", "cash", "positions_count"}

\* A get_stats whose broker call is not inside a try.
SMA_get_stats_unguarded(client, has_equity, account_ok) ==
    IF client /\ has_equity
    THEN IF account_ok
         THEN [raised |-> FALSE, keys |-> SMA_local_keys \cup SMA_equity_keys,
               broker |-> "ok"]
         ELSE [raised |-> TRUE, keys |-> {}, broker |-> "failed"]
    ELSE [raised |-> FALSE, keys |-> SMA_local_keys, broker |-> "unused"]

\* SMAStrategy.get_stats.  client: self.trading_client is set; has_equity:
\* self.initial_equity is set and not zero; account_ok: get_account returns.
\* The four equity keys are stored after the last statement that can
\* raise, and the bare except swallows whatever was raised.
SMA_get_stats(client, has_equity, account_ok) ==
    IF client /\ has_equity
    THEN IF account_ok
         THEN [raised |-> FALSE, keys |-> SMA_local_keys \cup SMA_equity_keys,
               broker |-> "ok"]
         ELSE [raised |-> FALSE, keys |-> SMA_local_keys, broker |-> "failed"]
    ELSE [raised |-> FALSE, keys |-> SMA_local_keys, broker |-> "unused"]

\* GeminiPortfolioStrategy.get_stats.  get_account and get_all_positions
\* are both called before the first equity key is stored.
Gemini_get_stats(client, account_ok, positions_ok) ==
    IF client
    THEN IF account_ok /\ positions_ok
         THEN [raised |-> FALSE,
               keys |-> Gemini_local_keys \cup Gemini_equity_keys,
               broker |-> "ok"]
         ELSE [raised |-> FALSE, keys |-> Gemini_local_keys,
               broker |-> "failed"]
    ELSE [raised |-> FALSE, keys |-> Gemini_local_keys, broker |-> "unused"]

\* SMAStrategy.get_stats, called in whatever state the instance is.
\* initial_equity is set by an initialize() that returned, to the equity
\* the account then had, which may be zero.
SMA_get_stats_call ==
    /\ impl = "sma"
    /\ \E nonzero \in BOOLEAN, account_ok \in BOOLEAN :
          stats_result' = SMA_get_stats(trading_client,
                                        init_state = "ok" /\ nonzero,
                                        account_ok)
    /\ UNCHANGED call
    /\ UNCHANGED lifecycle_vars
    /\ UNCHANGED strategy_vars
    /\ UNCHANGED runner_vars
    /\ UNCHANGED registry_vars
    /\ UNCHANGED <<handler_vars, portfolio_vars, loop_vars, twin_vars>>

\* GeminiPortfolioStrategy.get_stats, called in whatever state the
\* instance is
Gemini_get_stats_call ==
    /\ impl = "gemini"
    /\ \E account_ok \in BOOLEAN, positions_ok \in BOOLEAN :
          stats_result' = Gemini_get_stats(trading_client, account_ok,
                                           positions_ok)
    /\ UNCHANGED call
    /\ UNCHANGED lifecycle_vars
    /\ UNCHANGED strategy_vars
    /\ UNCHANGED runner_vars
    /\ UNCHANGED registry_vars
    /\ UNCHANGED <<handler_vars, portfolio_vars, loop_vars, twin_vars>>

InitLifecycle ==
    /\ impl \in LifecycleImpls
    /\ feed = "any"
    /\ fast_period = FAST_PERIOD
    /\ slow_period = SLOW_PERIOD
    /\ prices = <<>>
    /\ position = None
    /\ last_signal = None
    /\ trade_count = 0
    /\ trading_client = FALSE
    /\ is_running = FALSE
    /\ data_stream = "None"
    /\ stream_task = "None"
    /\ start_pc = "idle"
    /\ stop_pc = "idle"
    /\ fill_checks = 0
    /\ stats = <<>>
    /\ fed = <<>>
    /\ orders = <<>>
    /\ signals = <<>>
    /\ bar_result = NoResult
    /\ RunnerIdle
    /\ RegistryInit
    /\ LifecycleInit
    /\ HandlerInit
    /\ CallInit
    /\ LoopInit
    /\ TwinIdle
    /\ PortfolioIdle

NextLifecycle ==
    \/ SMA_initialize_call
    \/ SMA_start_call
    \/ SMA_start_return
    \/ SMA_stop_call
    \/ SMA_stop_close
    \/ Gemini_initialize
    \/ Gemini_start
    \/ Gemini_start_return
    \/ Gemini_stop
    \/ SMA_get_stats_call
    \/ Gemini_get_stats_call

SpecLifecycle == InitLifecycle /\ [][NextLifecycle]_vars

\* ------------------------------------ the bar handlers, one event-loop step
\* at a time.  A handler is a coroutine: the event loop runs it from where
\* it is to its next await that suspends, and anything else that is ready
\* (another bar, stop() after its sleep, shutdown) may run in between.
\* SMA_bar and Bot_bar above are the same handlers taken as one step.

\* Whether a handler is suspended between sending its order and recording
\* it.  _handle_bar awaits _execute_trade and handle_bar awaits
\* execute_trade, but neither callee awaits anything before its position
\* and trade_count update: submit_order is a plain blocking call, and
\* create_task does not suspend.  The await runs the callee inline.

\* An execute_trade whose submit_order is awaited.
execute_trade_suspends_awaited == TRUE

\* DurianTradingBot.execute_trade: no await in its body
execute_trade_suspends == FALSE

\* An _execute_trade whose submit_order is awaited.
SMA_execute_trade_suspends_awaited == TRUE

\* SMAStrategy._execute_trade: no await in its body
SMA_execute_trade_suspends == FALSE

submit_suspends(i) ==
    IF i = "sma" THEN SMA_execute_trade_suspends ELSE execute_trade_suspends

\* (fast_period, slow_period) pairs of the handler model
HandlerConfigs == {c \in Configs : c[2] <= 2}

\* _execute_trade / execute_trade on the fields as they are now
HandlerTrade(signal, submit_ok) ==
    IF impl = "sma"
    THEN SMA_execute_trade(signal, position, trade_count, submit_ok)
    ELSE execute_trade(signal, position, trade_count, submit_ok)

\* The event loop runs a bar handler: a suspended one from where it stopped
\* to its end, or a new one, for the bar the stream delivers, from its
\* start to its first suspension or its end.
Handler_run ==
    /\ \E resume \in BOOLEAN :
          IF resume /\ in_flight # <<>>
          THEN LET h == Head(in_flight)
                   t == HandlerTrade(h.signal, h.submit_ok)
               IN  /\ position' = t.position
                   /\ trade_count' = t.trade_count
                   /\ orders' = IF t.submit = "ok"
                                THEN Append(orders, h.signal) ELSE orders
                   /\ fill_checks' = IF impl = "bot" /\ t.submit = "ok"
                                     THEN fill_checks + 1 ELSE fill_checks
                   /\ bar_result' = [bar_result EXCEPT !.submit = t.submit]
                   /\ in_flight' = Tail(in_flight)
                   /\ stats' = <<>>
                   /\ UNCHANGED <<prices, last_signal, fed, signals,
                                  fill_seen>>
          ELSE /\ Delivering
               /\ \E price \in NextCloses, submit_ok \in BOOLEAN :
                     LET r == IF impl = "sma"
                              THEN SMA_handle_bar(prices, position,
                                       last_signal, trade_count, fast_period,
                                       slow_period, price, submit_ok)
                              ELSE handle_bar(prices, position, last_signal,
                                       trade_count, fast_period, slow_period,
                                       price, submit_ok)
                     IN  IF r.res.should /\ submit_suspends(impl)
                         THEN /\ prices' = r.prices
                              /\ last_signal' = r.last_signal
                              /\ fed' = Append(fed, price)
                              /\ signals' = Append(signals, r.res.emitted)
                              /\ bar_result' =
                                    [r.res EXCEPT !.submit = "pending"]
                              /\ in_flight' =
                                    Append(in_flight,
                                           [signal |-> r.res.emitted,
                                            submit_ok |-> submit_ok])
                              /\ stats' = <<>>
                              /\ UNCHANGED <<position, trade_count, orders,
                                             fill_checks>>
                         ELSE /\ ApplyBar(r, price)
                              /\ fill_checks' =
                                    IF impl = "bot" /\ r.res.submit = "ok"
                                    THEN fill_checks + 1 ELSE fill_checks
                              /\ UNCHANGED in_flight
               /\ fill_seen' = IF impl = "bot" THEN None ELSE fill_seen
    /\ UNCHANGED <<impl, feed, fast_period, slow_period, trading_client,
                   is_running, data_stream, stream_task, start_pc, stop_pc>>
    /\ UNCHANGED runner_vars
    /\ UNCHANGED registry_vars
    /\ UNCHANGED lifecycle_vars
    /\ UNCHANGED <<call_vars, portfolio_vars, loop_vars, twin_vars>>

InitHandler ==
    /\ StrategyInit(HandlerConfigs, "any")
    /\ RunnerIdle
    /\ RegistryInit
    /\ LifecycleInit
    /\ HandlerInit
    /\ CallInit
    /\ LoopInit
    /\ TwinIdle
    /\ PortfolioIdle

NextHandler ==
    \/ SMA_initialize
    \/ SMA_start
    \/ SMA_start_exit
    \/ SMA_stop
    \/ SMA_stop_close
    \/ Bot_start
    \/ Bot_check_order_fill
    \/ Bot_shutdown
    \/ Handler_run

SpecHandler == InitHandler /\ [][NextHandler]_vars

\* ------------------------------ the signal engine, one method call at a time
\* The strategy object with its methods called directly, in any order and
\* with any argument: SimpleMAStrategy (impl "bot") and SMAStrategy (impl
\* "sma").  call records the method, its signal argument and what came back.

\* str() of a bool
PyBool(b) == IF b THEN "True" ELSE "False"

Called(op, arg, ret, ma) == [op |-> op, arg |-> arg, ret |-> ret, ma |-> ma]

\* A check_signal that forgets the last signal when it has nothing to emit.
check_signal_effect_forgets(q, pos, ls, n, fast, slow) ==
    LET r == check_signal(q, fast, slow, ls)
    IN  [prices |-> q, position |-> pos,
         last_signal |-> IF r.signal = None THEN None ELSE r.last_signal,
         trade_count |-> n, ret |-> r.signal]

\* SimpleMAStrategy.check_signal as a call on the object: its fields after
\* the call and the signal returned.  last_signal is the only attribute the
\* method assigns.
check_signal_effect(q, pos, ls, n, fast, slow) ==
    LET r == check_signal(q, fast, slow, ls)
    IN  [prices |-> q, position |-> pos, last_signal |-> r.last_signal,
         trade_count |-> n, ret |-> r.signal]

\* SMAStrategy._check_signal, called with the two averages of the series
SMA_check_signal_effect(q, pos, ls, n, fast, slow) ==
    LET r == SMA_check_signal(SMA_calculate_ma(q, fast),
                              SMA_calculate_ma(q, slow), ls)
    IN  [prices |-> q, position |-> pos, last_signal |-> r.last_signal,
         trade_count |-> n, ret |-> r.signal]

\* A should_execute_trade that does not buy right after a SELL signal.
should_execute_trade_effect_debounced(q, pos, ls, n, signal_type) ==
    [prices |-> q, position |-> pos, last_signal |-> ls, trade_count |-> n,
     ret |-> should_execute_trade(signal_type, pos) /\ ls # "SELL"]

\* SimpleMAStrategy.should_execute_trade as a call on the object: it reads
\* self.position and assigns nothing.
should_execute_trade_effect(q, pos, ls, n, signal_type) ==
    [prices |-> q, position |-> pos, last_signal |-> ls, trade_count |-> n,
     ret |-> should_execute_trade(signal_type, pos)]

\* SMAStrategy._should_execute_trade as a call on the object
SMA_should_execute_trade_effect(q, pos, ls, n, signal) ==
    [prices |-> q, position |-> pos, last_signal |-> ls, trade_count |-> n,
     ret |-> SMA_should_execute_trade(signal, pos)]

\* The fields of the object after a call that returned r
ApplyCall(r) ==
    /\ prices' = r.prices
    /\ position' = r.position
    /\ last_signal' = r.last_signal
    /\ trade_count' = r.trade_count

\* What a call leaves alone besides the four fields and call itself
CallFrame ==
    /\ UNCHANGED <<impl, feed, fast_period, slow_period, trading_client,
                   is_running, data_stream, stream_task, start_pc, stop_pc,
                   fill_checks, stats, fed, orders, signals, bar_result>>
    /\ UNCHANGED stats_result
    /\ UNCHANGED runner_vars
    /\ UNCHANGED registry_vars
    /\ UNCHANGED lifecycle_vars
    /\ UNCHANGED <<handler_vars, portfolio_vars, loop_vars, twin_vars>>

\* add_price(price); self.prices.append(price) in SMAStrategy
Call_add_price ==
    /\ \E price \in Prices :
          prices' = IF impl = "sma"
                    THEN DequeAppend(prices, price, slow_period)
                    ELSE add_price(prices, price, slow_period)
    /\ call' = Called("add_price", None, None, Unavailable)
    /\ UNCHANGED <<position, last_signal, trade_count>>
    /\ CallFrame

\* check_signal(); _check_signal(fast_ma, slow_ma), which _handle_bar calls
\* with the averages of a full window
Call_check_signal ==
    /\ impl = "sma" => ~SMA_warming_up(prices, slow_period)
    /\ LET r == IF impl = "sma"
                THEN SMA_check_signal_effect(prices, position, last_signal,
                         trade_count, fast_period, slow_period)
                ELSE check_signal_effect(prices, position, last_signal,
                         trade_count, fast_period, slow_period)
       IN  /\ ApplyCall(r)
           /\ call' = Called("check_signal", None, r.ret, Unavailable)
    /\ CallFrame

\* should_execute_trade(signal_type); _should_execute_trade(signal)
Call_should_execute_trade ==
    /\ \E signal_type \in {"BUY", "SELL", None} :
          LET r == IF impl = "sma"
                   THEN SMA_should_execute_trade_effect(prices, position,
                            last_signal, trade_count, signal_type)
                   ELSE should_execute_trade_effect(prices, position,
                            last_signal, trade_count, signal_type)
          IN  /\ ApplyCall(r)
              /\ call' = Called("should_execute_trade", signal_type,
                                PyBool(r.ret), Unavailable)
    /\ CallFrame

\* calculate_ma(period); _calculate_ma(period)
Call_calculate_ma ==
    /\ \E period \in 1..MaxSlow :
          call' = Called("calculate_ma", None, None,
                         IF impl = "sma" THEN SMA_calculate_ma(prices, period)
                         ELSE calculate_ma(prices, period))
    /\ UNCHANGED <<prices, position, last_signal, trade_count>>
    /\ CallFrame

\* SimpleMAStrategy.update_position(new_position)
Call_update_position ==
    /\ impl = "bot"
    /\ \E new_position \in {None, "LONG"} :
          position' = update_position(new_position)
    /\ call' = Called("update_position", None, None, Unavailable)
    /\ UNCHANGED <<prices, last_signal, trade_count>>
    /\ CallFrame

\* SimpleMAStrategy.increment_trade_count()
Call_increment_trade_count ==
    /\ impl = "bot"
    /\ trade_count < MaxCalls
    /\ trade_count' = increment_trade_count(trade_count)
    /\ call' = Called("increment_trade_count", None, None, Unavailable)
    /\ UNCHANGED <<prices, position, last_signal>>
    /\ CallFrame

\* SMAStrategy._execute_trade(signal, price)
Call_execute_trade ==
    /\ impl = "sma"
    /\ trade_count < MaxCalls
    /\ \E signal \in {"BUY", "SELL"}, submit_ok \in BOOLEAN :
          LET t == SMA_execute_trade(signal, position, trade_count, submit_ok)
          IN  /\ position' = t.position
              /\ trade_count' = t.trade_count
              /\ call' = Called("execute_trade", signal, None, Unavailable)
    /\ UNCHANGED <<prices, last_signal>>
    /\ CallFrame

InitCalls ==
    /\ StrategyInit(HandlerConfigs, "any")
    /\ RunnerIdle
    /\ RegistryInit
    /\ LifecycleInit
    /\ HandlerInit
    /\ CallInit
    /\ LoopInit
    /\ TwinIdle
    /\ PortfolioIdle

NextCalls ==
    \/ Call_add_price
    \/ Call_check_signal
    \/ Call_should_execute_trade
    \/ Call_calculate_ma
    \/ Call_update_position
    \/ Call_increment_trade_count
    \/ Call_execute_trade

SpecCalls == InitCalls /\ [][NextCalls]_vars

\* ------------------- gemini_portfolio/engine.py: GeminiAnalyzer, allocation
\* Weights are exact fractions <<numerator, denominator>>: v / total is
\* kept as <<v, total>>, 1.0 / target_count as <<1, target_count>>.  Raw
\* weights of a reply are written in tenths, 3 for 0.3.

Symbols == {"A", "B", "C"}
Scores == {1, 2}
RawWeights == {0, 3, 4, 5}

\* A dict with no key
EmptyDict == [k \in {} |-> <<0, 1>>]

\* The lists of AssetScore the analyzer may be given
ScoredLists ==
    UNION {[1..n -> [symbol : Symbols, score : Scores]] : n \in 0..MaxAssets}

\* What the model's reply may be once the markdown fence is stripped: text
\* json.loads rejects, or an object with or without the three keys.
Replies ==
    {[kind |-> "unparsable", has_allocations |-> FALSE,
      allocations |-> EmptyDict, has_reasoning |-> FALSE,
      rebalance_required |-> "missing"],
     [kind |-> "json", has_allocations |-> FALSE,
      allocations |-> EmptyDict, has_reasoning |-> TRUE,
      rebalance_required |-> "missing"]}
    \cup
    {[kind |-> "json", has_allocations |-> TRUE, allocations |-> a,
      has_reasoning |-> r[1], rebalance_required |-> r[2]] :
        a \in UNION {[S -> RawWeights] : S \in SUBSET Symbols},
        r \in {<<TRUE, "missing">>, <<TRUE, "true">>, <<TRUE, "false">>,
               <<FALSE, "missing">>}}

RECURSIVE SumValues(_, _)
\* sum(allocations.values()) over the keys in S
SumValues(a, S) ==
    IF S = {} THEN 0
    ELSE LET k == CHOOSE x \in S : TRUE
         IN  a[k] + SumValues(a, S \ {k})

\* The index of the first asset with the highest score
FirstBest(assets) ==
    CHOOSE i \in 1..Len(assets) :
        /\ \A j \in 1..Len(assets) : assets[j].score <= assets[i].score
        /\ \A j \in 1..(i - 1) : assets[j].score < assets[i].score

Without(assets, i) ==
    SubSeq(assets, 1, i - 1) \o SubSeq(assets, i + 1, Len(assets))

RECURSIVE SortedByScore(_)
\* sorted(scored_assets, key=score, reverse=True): descending, and equal
\* scores keep the order they came in
SortedByScore(assets) ==
    IF assets = <<>> THEN <<>>
    ELSE LET i == FirstBest(assets)
         IN  <<assets[i]>> \o SortedByScore(Without(assets, i))

\* sorted(...)[:target_count]
TopAssets(assets, n) ==
    LET sorted == SortedByScore(assets)
    IN  SubSeq(sorted, 1, IF n < Len(sorted) THEN n ELSE Len(sorted))

\* A normalization that divides by the number of symbols.
normalize_by_count(a) ==
    [k \in DOMAIN a |-> <<a[k], Cardinality(DOMAIN a)>>]

\* {k: v/total for k, v in allocations.items()}, for a total that is not 0
normalize(a) ==
    [k \in DOMAIN a |-> <<a[k], SumValues(a, DOMAIN a)>>]

\* The except branch: 1.0 / target_count for each symbol of the top
\* assets; the division raises when target_count is 0, and nothing catches
\* it there.
fallback(top, n) ==
    IF n = 0
    THEN [raised |-> TRUE, fallback |-> TRUE, allocations |-> EmptyDict,
          rebalance_required |-> TRUE]
    ELSE [raised |-> FALSE, fallback |-> TRUE,
          allocations |-> [k \in {top[i].symbol : i \in 1..Len(top)} |->
                              <<1, n>>],
          rebalance_required |-> TRUE]

\* determine_allocation after the model has replied.  In the try block:
\* json.loads, result["allocations"], the total, the division of every
\* value by it (none when the dict is empty), result["reasoning"], and
\* result.get("rebalance_required", True); whatever raises there reaches
\* the except branch.
determine_allocation(assets, n, reply) ==
    LET top == TopAssets(assets, n)
        a == reply.allocations
    IN  IF reply.kind # "json" \/ ~reply.has_allocations
        THEN fallback(top, n)
        ELSE IF DOMAIN a # {} /\ SumValues(a, DOMAIN a) = 0
        THEN fallback(top, n)
        ELSE IF ~reply.has_reasoning
        THEN fallback(top, n)
        ELSE [raised |-> FALSE, fallback |-> FALSE,
              allocations |-> IF DOMAIN a = {} THEN EmptyDict
                              ELSE normalize(a),
              rebalance_required |-> reply.rebalance_required # "false"]

\* GeminiAnalyzer.determine_allocation, called with the scored assets and
\* the portfolio size; the reply is whatever the model sends.  The
\* analyzer keeps nothing between two calls, so one call is followed.
Engine_determine_allocation ==
    /\ plan = <<>>
    /\ \E reply \in Replies :
          /\ ai_output' = <<reply>>
          /\ plan' = <<determine_allocation(scored_assets, target_count,
                                            reply)>>
    /\ UNCHANGED <<scored_assets, target_count, rebalance>>
    /\ UNCHANGED strategy_vars
    /\ UNCHANGED runner_vars
    /\ UNCHANGED registry_vars
    /\ UNCHANGED lifecycle_vars
    /\ UNCHANGED <<handler_vars, call_vars, loop_vars, twin_vars>>

InitAllocation ==
    /\ StrategyIdle
    /\ RunnerIdle
    /\ RegistryInit
    /\ LifecycleInit
    /\ HandlerInit
    /\ CallInit
    /\ LoopInit
    /\ TwinIdle
    /\ scored_assets \in ScoredLists
    /\ target_count \in 0..MaxTarget
    /\ ai_output = <<>>
    /\ plan = <<>>
    /\ rebalance = <<>>

NextAllocation == Engine_determine_allocation

SpecAllocation == InitAllocation /\ [][NextAllocation]_vars

\* ------------- gemini_portfolio/strategy.py: the scheduled rebalancing job
\* Money is in cents.  A target value weight * total_equity is the exact
\* fraction <<n * equity, d>> for the weight <<n, d>>.

\* The account equity and the market value of a held position
Equities == {10000, 10100}
PositionValues == {2500, 9000}

\* What get_all_positions may return: the symbols held and their values
Holdings == UNION {[S -> PositionValues] : S \in SUBSET Symbols}

\* The scored universe of the rebalancing runs, and their portfolio size
UniverseScores ==
    <<[symbol |-> "A", score |-> 2], [symbol |-> "B", score |-> 1],
      [symbol |-> "C", score |-> 1]>>

\* abs(adjustment) < 10 dollars is skipped
MIN_ADJUSTMENT == 1000

Abs(x) == IF x < 0 THEN 0 - x ELSE x

\* target_value - current_value for one symbol, as n / d cents with d > 0
Adjustment(w, equity, held, k) ==
    LET current_value == IF k \in DOMAIN held THEN held[k] ELSE 0
        n == IF w[2] < 0 THEN 0 - w[1] ELSE w[1]
        d == Abs(w[2])
    IN  <<n * equity - current_value * d, d>>

\* A threshold that also skips an adjustment of exactly 10 dollars.
material_above(adj) == Abs(adj[1]) > MIN_ADJUSTMENT * adj[2]

\* not (abs(adjustment) < 10)
material(adj) == Abs(adj[1]) >= MIN_ADJUSTMENT * adj[2]

\* round(abs(adjustment), 2) in cents.  half_up settles an amount that is
\* exactly half a cent between two cents: which way the float goes there
\* depends on how the product was rounded in binary.
round2(adj, half_up) ==
    LET q == Abs(adj[1]) \div adj[2]
        r == Abs(adj[1]) % adj[2]
    IN  IF 2 * r < adj[2] THEN q
        ELSE IF 2 * r > adj[2] THEN q + 1
        ELSE IF half_up THEN q + 1 ELSE q

\* The MarketOrderRequest for one symbol; accepted: submit_order returned
order_request(k, adj, half_up, accepted) ==
    [symbol |-> k, side |-> IF adj[1] > 0 THEN "BUY" ELSE "SELL",
     notional |-> round2(adj, half_up), accepted |-> accepted]

\* The order in which the dicts of a rebalance are walked.  Python walks a
\* dict in insertion order; the rebalance treats every symbol alike, so one
\* order stands for all.
SymbolOrder == <<"A", "B", "C">>

Before(x, k) ==
    \E i, j \in 1..Len(SymbolOrder) :
        i < j /\ SymbolOrder[i] = x /\ SymbolOrder[j] = k

InOrder(S) == SelectSeq(SymbolOrder, LAMBDA k : k \in S)

\* An order loop that ends at the first submit_order that raises.
submit_reached_until_failure(k, failing) ==
    \A x \in failing : ~Before(x, k)

\* The order loop reaches the symbol k whatever was refused before it: the
\* except inside the loop logs the error and continues.
submit_reached(k, failing) == TRUE

\* A rebalance that goes on to its orders after a close_position raised.
orders_after_failed_close_kept(reqs) == reqs

\* close_position is called outside the inner try: when it raises, the
\* outer except ends the rebalance and the order loop is never entered.
orders_after_failed_close(reqs) == {}

\* The order requests of the loop over target_dollars
TargetOrders(targets, equity, held, failing, half_up) ==
    {order_request(k, Adjustment(targets[k], equity, held, k), half_up,
                   k \notin failing) :
        k \in {x \in DOMAIN targets :
                  /\ material(Adjustment(targets[x], equity, held, x))
                  /\ submit_reached(x, failing)}}

\* The close_position calls made: one that returned for every symbol of
\* closed, then the one that raised, if any symbol of to_close is left.
close_calls(closed, to_close) ==
    LET done == InOrder(closed)
        rest == InOrder(to_close \ closed)
    IN  [i \in 1..Len(done) |->
            [op |-> "close_position", symbol |-> done[i], ok |-> TRUE]]
        \o (IF rest = <<>> THEN <<>>
            ELSE <<[op |-> "close_position", symbol |-> rest[1],
                    ok |-> FALSE]>>)

\* The submit_order calls made for the requests reqs
submit_calls(reqs) ==
    LET ks == InOrder({o.symbol : o \in reqs})
    IN  [i \in 1..Len(ks) |->
            [op |-> "submit_order", symbol |-> ks[i],
             ok |-> \A o \in reqs : o.symbol = ks[i] => o.accepted]]

\* _rebalance_portfolio(target_allocations).  acct_ok, pos_ok:
\* get_account and get_all_positions return; closed: the positions
\* outside the target that close_position closed before one of the calls
\* raised (all of them when none did); failing: the symbols whose
\* submit_order raises.  An exception of the lookups or of a close ends the
\* rebalance in the outer except; one of a submit is logged and the loop
\* goes on.  calls: the close_position and submit_order calls in the order
\* made.
rebalance_portfolio(targets, acct_ok, equity, pos_ok, held, closed, failing, half_up) ==
    IF ~acct_ok
    THEN [outcome |-> "aborted", equity |-> 0, held |-> EmptyDict,
          targets |-> targets, closed |-> {}, requests |-> {},
          calls |-> <<>>]
    ELSE IF ~pos_ok
    THEN [outcome |-> "aborted", equity |-> equity, held |-> EmptyDict,
          targets |-> targets, closed |-> {}, requests |-> {},
          calls |-> <<>>]
    ELSE
    LET to_close == DOMAIN held \ DOMAIN targets
        reqs == IF closed # to_close
                THEN orders_after_failed_close(
                         TargetOrders(targets, equity, held, failing, half_up))
                ELSE TargetOrders(targets, equity, held, failing, half_up)
    IN  [outcome |-> IF closed # to_close THEN "aborted" ELSE "done",
         equity |-> equity, held |-> held, targets |-> targets,
         closed |-> closed, requests |-> reqs,
         calls |-> close_calls(closed, to_close) \o submit_calls(reqs)]

\* A run that did not get as far as _rebalance_portfolio
NoRebalance(outcome) ==
    [outcome |-> outcome, equity |-> 0, held |-> EmptyDict,
     targets |-> EmptyDict, closed |-> {}, requests |-> {}, calls |-> <<>>]

\* GeminiPortfolioStrategy._execute_rebalance, the daily job: run the
\* analysis and rebalance when the plan asks for it.  Whatever the analysis
\* raises is logged and ends the run.  The runs do not depend on one
\* another, so one run is followed.
Gemini_execute_rebalance ==
    /\ rebalance = <<>>
    /\ \E analysis_ok \in BOOLEAN, reply \in Replies :
          LET p == determine_allocation(scored_assets, target_count, reply)
          IN  IF ~analysis_ok \/ p.raised
              THEN /\ rebalance' = <<NoRebalance("analysis_failed")>>
                   /\ UNCHANGED plan
              ELSE IF ~p.rebalance_required
              THEN /\ rebalance' = <<NoRebalance("not_required")>>
                   /\ plan' = <<p>>
              ELSE /\ plan' = <<p>>
                   /\ \E account_ok \in BOOLEAN, equity \in Equities,
                         positions_ok \in BOOLEAN, held \in Holdings,
                         half_up \in BOOLEAN,
                         failing \in {{}} \cup {{k} : k \in Symbols} :
                         \E closed \in
                               SUBSET (DOMAIN held \ DOMAIN p.allocations) :
                            rebalance' =
                               <<rebalance_portfolio(p.allocations,
                                    account_ok, equity, positions_ok, held,
                                    closed, failing, half_up)>>
    /\ UNCHANGED <<scored_assets, target_count, ai_output>>
    /\ UNCHANGED strategy_vars
    /\ UNCHANGED runner_vars
    /\ UNCHANGED registry_vars
    /\ UNCHANGED lifecycle_vars
    /\ UNCHANGED <<handler_vars, call_vars, loop_vars, twin_vars>>

InitRebalance ==
    /\ StrategyIdle
    /\ RunnerIdle
    /\ RegistryInit
    /\ LifecycleInit
    /\ HandlerInit
    /\ CallInit
    /\ LoopInit
    /\ TwinIdle
    /\ scored_assets = UniverseScores
    /\ target_count = 2
    /\ ai_output = <<>>
    /\ plan = <<>>
    /\ rebalance = <<>>

NextRebalance == Gemini_execute_rebalance

SpecRebalance == InitRebalance /\ [][NextRebalance]_vars

\* The end-to-end scenario: the same machine, configured as bot.py is and
\* fed the scenario's bars.
InitScenario ==
    /\ StrategyInit({<<FAST_PERIOD, SLOW_PERIOD>>}, "scenario")
    /\ RunnerIdle
    /\ RegistryInit
    /\ LifecycleInit
    /\ HandlerInit
    /\ CallInit
    /\ LoopInit
    /\ TwinIdle
    /\ PortfolioIdle

SpecScenario == InitScenario /\ [][Next]_vars

\* ------------------------------------------------------------- properties
\* The averages of the claims are taken over fed, the closes delivered,
\* by index.
RECURSIVE FedSum(_, _)
FedSum(h, n) ==
    IF n = 0 THEN 0 ELSE h[Len(h) - n + 1] + FedSum(h, n - 1)

FastAbove(h) ==
    FedSum(h, fast_period) * slow_period > FedSum(h, slow_period) * fast_period

FastBelow(h) ==
    FedSum(h, fast_period) * slow_period < FedSum(h, slow_period) * fast_period

\* A step that handles one bar.
BarStep == fed' # fed

Range(q) == {q[i] : i \in 1..Len(q)}

\* C1: when the series is ready, check_signal returns BUY iff fastMA >
\* slowMA and last_signal is not BUY, SELL iff fastMA < slowMA and
\* last_signal is not SELL, and None in every other case (ties included).
C1_CheckSignal ==
    [][BarStep /\ Len(fed') >= slow_period =>
        /\ bar_result'.emitted = "BUY" <=>
              (FastAbove(fed') /\ last_signal # "BUY")
        /\ bar_result'.emitted = "SELL" <=>
              (FastBelow(fed') /\ last_signal # "SELL")
        /\ bar_result'.emitted \in {"BUY", "SELL", None}]_vars

\* A bar with fastMA = slowMA on different windows returned no signal, after
\* at least one signal had been emitted.
C1_Witness ==
    /\ Len(fed) >= slow_period
    /\ fast_period < slow_period
    /\ ~FastAbove(fed) /\ ~FastBelow(fed)
    /\ bar_result.emitted = None
    /\ signals # <<>>

\* C2: the non-None signals emitted alternate between BUY and SELL.
C2_Debounce ==
    \A i \in 1..(Len(signals) - 1) : signals[i] # signals[i + 1]

\* fastMA stayed above slowMA on a bar after the BUY and nothing was emitted,
\* and an opposite signal had come before.
C2_Witness ==
    /\ Len(signals) >= 2
    /\ last_signal = "BUY"
    /\ Len(fed) >= slow_period
    /\ FastAbove(fed)
    /\ bar_result.emitted = None

\* C3: should_execute_trade(BUY) is true iff the position is flat (None),
\* should_execute_trade(SELL) iff it is LONG.
C3_ShouldTrade ==
    [][BarStep /\ bar_result'.emitted # None =>
        (bar_result'.should <=>
            \/ bar_result'.emitted = "BUY" /\ position = None
            \/ bar_result'.emitted = "SELL" /\ position = "LONG")]_vars

\* A BUY signal came while LONG and was not to be traded.
C3_Witness ==
    /\ bar_result.emitted = "BUY"
    /\ position = "LONG"
    /\ ~bar_result.should
    /\ bar_result.submit = "none"

\* C4: the accepted orders alternate BUY, SELL, ... starting with BUY, so
\* accepted BUYs minus accepted SELLs is 0 or 1.
C4_OnePosition ==
    /\ \A i \in 1..Len(orders) :
          orders[i] = (IF i % 2 = 1 THEN "BUY" ELSE "SELL")
    /\ Cardinality({i \in 1..Len(orders) : orders[i] = "BUY"})
         - Cardinality({i \in 1..Len(orders) : orders[i] = "SELL"})
         \in {0, 1}

\* Two orders were accepted and a later submission failed.
C4_Witness ==
    /\ Len(orders) >= 2
    /\ bar_result.submit = "fail"

\* C5: the position changes only in a bar handling whose order was
\* accepted, flat to LONG for a BUY and LONG to flat for a SELL.
C5_PositionChange ==
    [][position' # position =>
        /\ BarStep
        /\ bar_result'.submit = "ok"
        /\ orders' = Append(orders, bar_result'.emitted)
        /\ \/ position = None /\ position' = "LONG"
                /\ bar_result'.emitted = "BUY"
           \/ position = "LONG" /\ position' = None
                /\ bar_result'.emitted = "SELL"]_vars

\* The position went back to flat by an accepted SELL, and stop() has run
\* since.
C5_Witness ==
    /\ position = None
    /\ Len(orders) = 2
    /\ trade_count = 2
    /\ ~Delivering

\* C6: the series holds at most slow_period prices, the last ones fed in
\* the order fed.
C6_Capacity ==
    /\ Len(prices) <= slow_period
    /\ Len(prices) = (IF Len(fed) < slow_period THEN Len(fed)
                      ELSE slow_period)
    /\ \A i \in 1..Len(prices) :
          prices[i] = fed[Len(fed) - Len(prices) + i]

\* After slow_period + 1 pushes the first price pushed is gone.
C6_Witness ==
    /\ Len(fed) = slow_period + 1
    /\ fed[1] \notin Range(prices)
    /\ prices[1] = fed[2]

\* The moving average the running implementation computes.
MovingAverage(period) ==
    IF impl = "bot" THEN calculate_ma(prices, period)
    ELSE SMA_calculate_ma(prices, period)

\* C7: calculate_ma(period), period <= slow_period, is the sum of the last
\* period prices fed over period once period prices were fed, and None
\* before.
C7_MovingAverage ==
    \A period \in 1..slow_period :
        MovingAverage(period) =
            (IF Len(fed) >= period THEN <<FedSum(fed, period), period>>
             ELSE Unavailable)

\* The series has evicted a price, and the windows differ in their sums.
C7_Witness ==
    /\ Len(fed) > slow_period
    /\ fast_period < slow_period
    /\ fed[1] # fed[Len(fed)]
    /\ MovingAverage(fast_period)[1] # MovingAverage(slow_period)[1]

\* C8 as stated: in the scenario no signal is emitted on bars 1..14; bar 15
\* emits BUY with fastMA = 13 and slowMA = 172/15, and
\* should_execute_trade(BUY) is true.
C8_Scenario_Stated ==
    /\ fed = SubSeq(Scenario, 1, Len(fed))
    /\ Len(fed) < 15 => signals = <<>> /\ last_signal = None
    /\ Len(fed) = 15 =>
          /\ signals = <<"BUY">>
          /\ bar_result.emitted = "BUY"
          /\ bar_result.fast_ma[1] = 13 * bar_result.fast_ma[2]
          /\ 15 * bar_result.slow_ma[1] = 172 * bar_result.slow_ma[2]
          /\ bar_result.should

\* C8 amended: in the scenario no signal is emitted on bars 1..14; bar 15
\* emits BUY with fastMA = 13 and slowMA = 165/15 = 11, and
\* should_execute_trade(BUY) is true.
C8_Scenario ==
    /\ fed = SubSeq(Scenario, 1, Len(fed))
    /\ Len(fed) < 15 => signals = <<>> /\ last_signal = None
    /\ Len(fed) = 15 =>
          /\ signals = <<"BUY">>
          /\ bar_result.emitted = "BUY"
          /\ bar_result.fast_ma[1] = 13 * bar_result.fast_ma[2]
          /\ bar_result.slow_ma[1] = 11 * bar_result.slow_ma[2]
          /\ bar_result.should

\* Bar 15 was handled and its BUY order accepted.
C8_Witness ==
    /\ feed = "scenario"
    /\ Len(fed) = 15
    /\ bar_result.emitted = "BUY"
    /\ position = "LONG"

\* Some requested name is not registered.
SomeUnregistered ==
    \E i \in 1..Len(strategy_names) : strategy_names[i] \notin DOMAIN registry

\* C9: when a requested name is not registered the runner exits with an
\* error before any strategy is created, initialized or started.
C9_ValidateFailFast ==
    SomeUnregistered =>
        /\ created = <<>>
        /\ initialized = <<>>
        /\ strategies = <<>>
        /\ main_pc \in {"validate", "exited"}
        /\ main_pc = "exited" => exit_code = "1"

\* The first of two names is registered, the second is not, and main has
\* exited with status 1.
C9_Witness ==
    /\ Len(strategy_names) = 2
    /\ strategy_names[1] \in DOMAIN registry
    /\ strategy_names[2] \notin DOMAIN registry
    /\ main_pc = "exited"
    /\ exit_code = "1"

\* C10: strategies are created and initialized one at a time in the
\* requested order; when create() or initialize() of the k-th fails the
\* runner exits, nothing after k is created or initialized and no start()
\* is called.
C10_LoadFailFast ==
    /\ created = SubSeq(strategy_names, 1, Len(created))
    /\ initialized = created
    /\ Len(created) - Len(strategies) \in {0, 1}
    /\ \A i \in 1..Len(strategies) :
          strategies[i].name = strategy_names[i]
    /\ load_failed # 0 =>
          /\ main_pc = "exited"
          /\ exit_code = "1"
          /\ Len(created) <= load_failed
          /\ Len(strategies) = load_failed - 1
          /\ \A i \in 1..Len(strategies) :
                /\ strategies[i].start = "none"
                /\ ~strategies[i].is_running

\* The first strategy was loaded, initialize() of the second raised and
\* the runner exited.
C10_Witness ==
    /\ load_failed = 2
    /\ Len(strategies) = 1
    /\ Len(created) = 2
    /\ main_pc = "exited"

\* C20: a bar whose order submission fails leaves the position, the trade
\* count and the accepted orders as they were, leaves the strategy running
\* with its stream task and subscription untouched, and the stream keeps
\* delivering the bars that follow.
C20_SubmitFailure ==
    [][BarStep /\ bar_result'.submit = "fail" =>
        /\ bar_result'.should
        /\ position' = position
        /\ trade_count' = trade_count
        /\ orders' = orders
        /\ is_running' = is_running
        /\ stream_task' = stream_task
        /\ data_stream' = data_stream
        /\ start_pc' = start_pc
        /\ (Len(fed') < MaxBars /\ feed # "scenario" => Delivering')]_vars

\* A first BUY was refused by the broker, and a later bar's BUY was
\* accepted: three signals were emitted and the only accepted order is the
\* one of the bar just handled.
C20_Witness ==
    /\ impl = "sma"
    /\ bar_result.submit = "ok"
    /\ Len(signals) = 3
    /\ Len(orders) = 1
    /\ trade_count = 1
    /\ position = "LONG"

\* The class of the last register call for name in log.
LastRegistered(log, name) ==
    LET I == {i \in 1..Len(log) : log[i][1] = name}
    IN  log[CHOOSE i \in I : \A j \in I : j <= i][2]

RegisteredNames(log) == {log[i][1] : i \in 1..Len(log)}

\* C18: create(name, cfg) for a registered name returns an instance of the
\* class most recently registered under that name, constructed with exactly
\* cfg; a register call sets the class of its name and leaves the class of
\* every other name as it was.
C18_LastRegistrationWins ==
    [][/\ (create_calls' # create_calls
            /\ create_result'.name \in RegisteredNames(reg_log)) =>
           /\ create_result'.outcome = "instance"
           /\ Len(create_result'.inst) = 1
           /\ create_result'.inst[1].cls =
                 LastRegistered(reg_log, create_result'.name)
           /\ create_result'.inst[1].config = create_result'.config
           /\ n_instances' = n_instances + 1
       /\ reg_log' # reg_log =>
           LET e == reg_log'[Len(reg_log')]
           IN  /\ DOMAIN registry' = DOMAIN registry \cup {e[1]}
               /\ registry'[e[1]] = e[2]
               /\ \A n \in DOMAIN registry \ {e[1]} :
                     registry'[n] = registry[n]]_vars

\* A name was registered twice with different classes while another name
\* was registered too, and create then built an instance of the later
\* class.
C18_Witness ==
    /\ Len(reg_log) = 3
    /\ \E i, j \in 1..3 :
          /\ i < j
          /\ reg_log[i][1] = reg_log[j][1]
          /\ reg_log[i][2] # reg_log[j][2]
          /\ create_result.name = reg_log[j][1]
          /\ create_result.outcome = "instance"
          /\ create_result.inst[1].cls = reg_log[j][2]
          /\ create_result.config = "sma-env"
          /\ \E k \in 1..3 : reg_log[k][1] # reg_log[j][1]
    /\ create_calls = 1

\* C19: create for a name that was never registered fails with the
\* unknown-strategy error, constructs no instance and leaves the registry
\* as it was.
C19_CreateUnknown ==
    [][(create_calls' # create_calls
         /\ create_result'.name \notin RegisteredNames(reg_log)) =>
           /\ create_result'.outcome = "ValueError"
           /\ create_result'.inst = <<>>
           /\ n_instances' = n_instances
           /\ registry' = registry]_vars

\* create failed for an unregistered name while other names were
\* registered, after an earlier create had succeeded.
C19_Witness ==
    /\ create_result.outcome = "ValueError"
    /\ create_result.name \notin DOMAIN registry
    /\ registry # <<>>
    /\ n_instances = 1
    /\ create_calls = 2

\* A call of start() or stop() is being made in this step.
StartCall == start_calls' # start_calls
StopCall == stop_calls' # stop_calls

\* The states of the lifecycle: INITIALIZED once initialize() has returned,
\* RUNNING while is_running, STOPPED when a started instance was stopped.
Uninitialized == init_state # "ok"
Running == init_state = "ok" /\ is_running
Stopped == init_state = "ok" /\ ~is_running /\ start_calls > 0
             /\ stop_calls > 0
NeverStarted == init_state = "ok" /\ start_calls = 0

\* C14: start() on a strategy whose initialize() has not returned raises
\* and changes nothing: is_running stays false, no stream task is created
\* and the scheduler gets no job.
C14_StartUninitialized ==
    [][StartCall /\ Uninitialized =>
        /\ start_result' = "raised"
        /\ is_running' = FALSE
        /\ stream_task' = stream_task
        /\ tasks_created' = tasks_created
        /\ scheduler' = scheduler
        /\ jobs' = jobs]_vars

\* C15: start() on a strategy that is RUNNING or STOPPED raises, creates
\* no further stream task or scheduler job and leaves is_running as it
\* was.
C15_StartOnlyFromInitialized ==
    [][StartCall /\ (Running \/ Stopped) =>
        /\ start_result' = "raised"
        /\ tasks_created' = tasks_created
        /\ jobs' = jobs
        /\ is_running' = is_running]_vars

\* C16: stop() on a strategy that is already stopped, or that was
\* initialized and never started, does not raise and leaves it not
\* running.
C16_StopTolerant ==
    [][StopCall /\ (Stopped \/ NeverStarted) =>
        /\ ~stop_raised'
        /\ ~is_running']_vars

\* Every loaded strategy is in its run-loop.
AllLooping ==
    /\ main_pc = "gather"
    /\ \A i \in 1..Len(strategies) : strategies[i].start = "looping"

C12_ShutdownFanOut ==
    \A k \in 1..Len(shutdowns) :
       LET sd == shutdowns[k]
       IN  /\ sd.pc # "raised"
           /\ sd.pc = "done" => sd.stopped = 1..Len(strategies)
           /\ sd.pc \in {"created", "loop", "done"} =>
                 sd.stopped = 1..(sd.i - 1)
           /\ sd.pc = "sleeping" => sd.stopped = 1..sd.i
           /\ sd.raised \subseteq sd.stopped
           /\ \A i \in sd.stopped :
                 strategies[i].stops >= 1 /\ ~strategies[i].is_running

\* stop() of the first of two strategies raised, and the execution went on
\* to stop the second and ended.
C12_Witness ==
    /\ Len(strategies) = 2
    /\ \E k \in 1..Len(shutdowns) :
          /\ shutdowns[k].pc = "done"
          /\ 1 \in shutdowns[k].raised
          /\ shutdowns[k].stopped = {1, 2}
    /\ strategies[2].stops >= 1

\* C13: when a shutdown has been requested while every loaded strategy is
\* in its run-loop, then, every task being scheduled fairly, every start()
\* returns and run() completes.
C13_ShutdownLiveness ==
    (AllLooping /\ shutdowns # <<>>) ~>
        /\ \A i \in 1..Len(strategies) : strategies[i].start = "returned"
        /\ main_pc = "exited"
        /\ exit_code = "0"

\* Two strategies were running, a signal came, both start() calls returned
\* and the runner ended normally.
C13_Witness ==
    /\ Len(strategies) = 2
    /\ sig_count >= 1
    /\ \A i \in 1..2 : strategies[i].start = "returned"
    /\ main_pc = "exited"
    /\ exit_code = "0"

\* C17: every loaded instance is initialized exactly once, started at most
\* once and stopped at most once.
C17_LifecycleOnce ==
    \A i \in 1..Len(strategies) :
       /\ strategies[i].inits = 1
       /\ strategies[i].starts <= 1
       /\ strategies[i].stops <= 1

\* A fill check has just run: one check_order_fill task less, the stream
\* still running, and a status seen.
FillCheckStep ==
    /\ fill_checks' = fill_checks - 1
    /\ stream_task' = stream_task
    /\ fill_seen' # None

\* C21: the delayed fill check only reports.  Whatever order status it
\* sees (filled, not filled, or a lookup error), it leaves position,
\* last_signal, trade_count and the price series as they were, so the
\* position set at submission time is never rolled back.
C21_FillCheckFrame ==
    [][FillCheckStep =>
          /\ fill_seen' \in OrderStatuses
          /\ UNCHANGED <<position, last_signal, trade_count, prices>>]_vars

\* The only order is a BUY, its fill check saw it not filled, and the
\* position is still LONG.
C21_Witness ==
    /\ impl = "bot"
    /\ orders = <<"BUY">>
    /\ fill_checks = 0
    /\ fill_seen = "not_filled"
    /\ position = "LONG"

\* C30: while fewer than slow_period bars have been received, bar handling
\* emits no signal, leaves last_signal None and the position flat, and
\* submits no order; bar number slow_period is the first on which a signal
\* can be emitted, and one is emitted there whenever the two averages
\* differ.
C30_WarmUp ==
    /\ Len(fed) < slow_period =>
          /\ signals = <<>>
          /\ bar_result.emitted = None
          /\ last_signal = None
          /\ position = None
          /\ orders = <<>>
          /\ trade_count = 0
    /\ (Len(fed) = slow_period /\ (FastAbove(fed) \/ FastBelow(fed))) =>
          Len(signals) = 1

\* After a warm-up of at least two bars, bar number slow_period emitted the
\* first signal.
C30_Witness ==
    /\ slow_period >= 3
    /\ Len(fed) = slow_period
    /\ Len(signals) = 1
    /\ bar_result.emitted # None

\* C22: bar handling of one strategy is strictly sequential.  Whenever the
\* handling of a bar begins, no handler of an earlier bar is still part-way
\* (its order sent, its position and trade_count not yet updated), and the
\* handling is finished when the step ends; this holds with stop() and the
\* shutdown of the stream running in between.
C22_SequentialBars ==
    [][BarStep => (in_flight = <<>> /\ in_flight' = <<>>)]_vars

\* Two bars in a row each had an order accepted, and stop() is in its sleep
\* while the stream still delivers.
C22_Witness ==
    /\ Len(orders) >= 2
    /\ trade_count = Len(orders)
    /\ stop_pc = "sleeping"
    /\ stream_task = "running"
    /\ bar_result.submit = "ok"

\* C23: stop() closes the data feed only when no bar handler is in
\* progress: in no reachable state is the feed closed while a handler has
\* sent its order and not yet updated position and trade_count.
C23_CloseAfterHandler ==
    data_stream = "closed" => in_flight = <<>>

\* stop() closed the feed of a strategy whose last handled bar had an order
\* accepted; position and trade_count carry that order.
C23_Witness ==
    /\ impl = "sma"
    /\ data_stream = "closed"
    /\ bar_result.submit = "ok"
    /\ position = "LONG"
    /\ trade_count = Len(orders)
    /\ trade_count >= 1

\* C28: the effect of check_signal on the object.  Whenever it returns
\* None (not ready, equal averages, or a debounced repeat) last_signal
\* is unchanged; whenever it emits BUY or SELL last_signal becomes the
\* signal emitted; in every case the price series, the position and
\* trade_count are unchanged.  No other method changes last_signal.
C28_CheckSignalFrame ==
    [][/\ call'.op = "check_signal" =>
             /\ call'.ret \in {"BUY", "SELL", None}
             /\ call'.ret = None => last_signal' = last_signal
             /\ call'.ret # None => last_signal' = call'.ret
             /\ UNCHANGED <<prices, position, trade_count>>
       /\ last_signal' # last_signal => call'.op = "check_signal"]_vars

\* check_signal returned None for a repeat of the BUY it had emitted: the
\* fast average is above the slow one, last_signal is still BUY, and the
\* object holds a position and a trade.
C28_Witness ==
    /\ call.op = "check_signal"
    /\ call.ret = None
    /\ last_signal = "BUY"
    /\ Len(prices) = slow_period
    /\ RatGT(calculate_ma(prices, fast_period),
             calculate_ma(prices, slow_period))
    /\ position = "LONG"
    /\ trade_count > 0

\* C29: should_execute_trade and calculate_ma are pure.  A call of either
\* changes none of the price series, position, last_signal and
\* trade_count, and what should_execute_trade returns is a function of
\* its signal argument and the position alone: true for BUY when flat,
\* true for SELL when LONG, false otherwise.
C29_Pure ==
    [][call'.op \in {"should_execute_trade", "calculate_ma"} =>
          /\ UNCHANGED <<prices, position, last_signal, trade_count>>
          /\ call'.op = "should_execute_trade" =>
                call'.ret = PyBool((call'.arg = "BUY" /\ position = None)
                                   \/ (call'.arg = "SELL"
                                       /\ position = "LONG"))
          /\ call'.op = "calculate_ma" =>
                \/ call'.ma = Unavailable
                \/ Len(call'.ma) = 2]_vars

\* should_execute_trade(BUY) returned True on a flat object whose last
\* signal is SELL, whose series is full and which counts a trade.
C29_Witness ==
    /\ call.op = "should_execute_trade"
    /\ call.arg = "BUY"
    /\ call.ret = "True"
    /\ position = None
    /\ last_signal = "SELL"
    /\ Len(prices) = slow_period
    /\ trade_count > 0

\* The keys get_stats fills in without the broker, and with it
LocalKeys == IF impl = "sma" THEN SMA_local_keys ELSE Gemini_local_keys

EquityKeys == IF impl = "sma" THEN SMA_equity_keys ELSE Gemini_equity_keys

\* C27: get_stats never fails.  In every lifecycle state and whatever the
\* broker does, the call returns a mapping with the local keys (strategy
\* name, trade_count and position, or portfolio_size and model); the
\* equity keys are all there when the broker answered and all left out
\* when it failed or was not asked; no exception escapes.
C27_GetStatsNeverFails ==
    stats_result = NoStats \/
       /\ ~stats_result.raised
       /\ LocalKeys \subseteq stats_result.keys
       /\ stats_result.broker = "ok" =>
             stats_result.keys = LocalKeys \cup EquityKeys
       /\ stats_result.broker # "ok" => stats_result.keys = LocalKeys

\* get_stats was called on a running, initialized strategy while the
\* broker failed, and returned the local keys alone.
C27_Witness ==
    /\ is_running
    /\ init_state = "ok"
    /\ stats_result.broker = "failed"
    /\ ~stats_result.raised
    /\ stats_result.keys = LocalKeys

\* Fractions: equality, and the sum of the weights of a plan
RatEq(x, y) == x[1] * y[2] = y[1] * x[2]

RECURSIVE WeightSum(_, _)
WeightSum(a, S) ==
    IF S = {} THEN <<0, 1>>
    ELSE LET k == CHOOSE x \in S : TRUE
             r == WeightSum(a, S \ {k})
         IN  <<a[k][1] * r[2] + r[1] * a[k][2], a[k][2] * r[2]>>

SumsToOne(a) == RatEq(WeightSum(a, DOMAIN a), <<1, 1>>)

\* The reply of the last call carries raw allocations whose total is not 0.
NonZeroTotal ==
    /\ ai_output # <<>>
    /\ ai_output[1].kind = "json"
    /\ ai_output[1].has_allocations
    /\ SumValues(ai_output[1].allocations,
                 DOMAIN ai_output[1].allocations) # 0

\* The plan has the symbols of the reply, each with raw weight / total.
Normalized ==
    LET a == ai_output[1].allocations
        p == plan[1]
    IN  /\ ~p.raised
        /\ DOMAIN p.allocations = DOMAIN a
        /\ \A k \in DOMAIN a :
              RatEq(p.allocations[k], <<a[k], SumValues(a, DOMAIN a)>>)
        /\ SumsToOne(p.allocations)

\* C25 as stated: for raw allocations with a total T that is not 0,
\* determine_allocation returns the same symbols, each with raw weight / T,
\* and the weights sum to 1.
C25_Normalization_Stated ==
    NonZeroTotal => Normalized

\* C25: for a reply that carries raw allocations with a total T that is
\* not 0 and a reasoning field, determine_allocation returns the same
\* symbols, each with raw weight / T, and the weights sum to 1.
C25_Normalization ==
    (NonZeroTotal /\ ai_output[1].has_reasoning) => Normalized

\* The reply {A: 0.3, B: 0.5, C: 0.4} came back as {A: 1/4, B: 5/12,
\* C: 1/3}.
C25_Witness ==
    /\ NonZeroTotal
    /\ ai_output[1].has_reasoning
    /\ ai_output[1].allocations = [k \in Symbols |->
          IF k = "A" THEN 3 ELSE IF k = "B" THEN 5 ELSE 4]
    /\ ~plan[1].fallback
    /\ RatEq(plan[1].allocations["A"], <<1, 4>>)
    /\ RatEq(plan[1].allocations["B"], <<5, 12>>)
    /\ RatEq(plan[1].allocations["C"], <<1, 3>>)

\* The reply of the last call is malformed: not JSON, without the
\* allocations key, or with allocations whose total is 0.
Malformed ==
    /\ ai_output # <<>>
    /\ \/ ai_output[1].kind # "json"
       \/ ~ai_output[1].has_allocations
       \/ SumValues(ai_output[1].allocations,
                    DOMAIN ai_output[1].allocations) = 0

\* C26: when the reply is malformed, determine_allocation returns an
\* equal-weight plan over the top target_count scored assets with
\* rebalance_required true, and the weights of that plan sum to 1 for
\* every list of scored assets.
C26_Fallback ==
    Malformed =>
       LET p == plan[1]
           top == TopAssets(scored_assets, target_count)
       IN  /\ ~p.raised
           /\ p.rebalance_required
           /\ DOMAIN p.allocations = {top[i].symbol : i \in 1..Len(top)}
           /\ \A k \in DOMAIN p.allocations :
                 RatEq(p.allocations[k], <<1, Cardinality(DOMAIN p.allocations)>>)
           /\ SumsToOne(p.allocations)

\* The requests of the last rebalance for the symbol k
RequestsFor(k) == {o \in rebalance[1].requests : o.symbol = k}

\* The adjustment of the target symbol k in the last rebalance
Delta(k) ==
    Adjustment(rebalance[1].targets[k], rebalance[1].equity,
               rebalance[1].held, k)

\* For k, no request below 10 dollars, else one request on the right side
\* whose notional is within tol / (2 * d) cents of abs(delta).
ThresholdRule(k, tol) ==
    LET adj == Delta(k)
    IN  IF Abs(adj[1]) < MIN_ADJUSTMENT * adj[2]
        THEN RequestsFor(k) = {}
        ELSE /\ Cardinality(RequestsFor(k)) = 1
             /\ \A o \in RequestsFor(k) :
                   /\ o.side = "BUY" <=> adj[1] > 0
                   /\ o.side = "SELL" <=> adj[1] < 0
                   /\ 2 * Abs(o.notional * adj[2] - Abs(adj[1])) <= tol

C32_DebounceAtEmission ==
    [][\A side \in {"BUY", "SELL"} :
          /\ (BarStep /\ bar_result'.emitted = side) => last_signal' = side
          /\ (BarStep /\ last_signal = side) =>
                /\ bar_result'.emitted # side
                /\ bar_result'.emitted = None => bar_result'.submit = "none"
          /\ (last_signal = side /\ last_signal' # side) =>
                /\ BarStep
                /\ bar_result'.emitted \notin {side, None}
                /\ last_signal' = bar_result'.emitted]_vars

\* The only BUY emitted was refused by the broker; two bars later fastMA
\* is still above slowMA, the position is flat and nothing was emitted or
\* ordered again.
C32_Witness ==
    /\ signals = <<"BUY">>
    /\ orders = <<>>
    /\ position = None
    /\ last_signal = "BUY"
    /\ Len(fed) >= slow_period + 2
    /\ FastAbove(fed)
    /\ FastAbove(SubSeq(fed, 1, Len(fed) - 1))
    /\ bar_result.emitted = None
    /\ bar_result.submit = "none"

\* The position and last_signal are in step.
InStep == position = "LONG" <=> last_signal = "BUY"

\* C33: when every order submission succeeds the position and last_signal
\* stay in step: they are in step at the start, and a step keeps them in
\* step unless it is a bar whose submission failed; in step, the position
\* is LONG iff last_signal is BUY and flat iff it is None or SELL.
C33_InStep ==
    /\ InStep
    /\ [][(InStep /\ ~(BarStep /\ bar_result'.submit = "fail")) =>
            /\ InStep'
            /\ position' = None <=> last_signal' \in {None, "SELL"}]_vars

\* A first SELL found the position flat, then a BUY and a SELL were both
\* accepted: three signals, two orders, flat again.
C33_Witness ==
    /\ signals = <<"SELL", "BUY", "SELL">>
    /\ orders = <<"BUY", "SELL">>
    /\ position = None
    /\ last_signal = "SELL"

\* C34: in SMAStrategy trade_count is the number of orders the broker
\* accepted, it never decreases, and the position is LONG iff trade_count
\* is odd, whatever submissions failed.
C34_TradeCount ==
    /\ [](impl = "sma" =>
            /\ trade_count = Len(orders)
            /\ position = "LONG" <=> trade_count % 2 = 1)
    /\ [][impl = "sma" => trade_count' >= trade_count]_vars

\* SMAStrategy had a BUY refused, then a BUY and a SELL accepted.
C34_Witness ==
    /\ impl = "sma"
    /\ Len(signals) > Len(orders) + 1
    /\ trade_count = 2
    /\ position = None
    /\ bar_result.submit = "ok"

\* C35: once stop() has set is_running to false, a bar that arrives before
\* the data feed is closed does not lead to submit_order or to a change of
\* the position.
C35_NoOrderAfterStop ==
    [][(BarStep /\ impl = "sma" /\ ~is_running /\ stop_pc = "sleeping") =>
          /\ bar_result'.submit = "none"
          /\ position' = position
          /\ orders' = orders]_vars

\* The calls of the last rebalance
Calls == rebalance[1].calls

\* The target symbols of the last rebalance whose delta is 10 dollars or
\* more
Material == {k \in DOMAIN rebalance[1].targets :
                Abs(Delta(k)[1]) >= MIN_ADJUSTMENT * Delta(k)[2]}

\* C31: rebalance failures are isolated per symbol and never escape: when
\* submit_order raises for one target symbol, submit_order is still called
\* for every other target symbol with a material delta in the same run,
\* and every run of _execute_rebalance ends in one of its logged outcomes,
\* none of them an exception.
C31_FailureIsolation ==
    rebalance # <<>> =>
       /\ rebalance[1].outcome \in
             {"done", "aborted", "analysis_failed", "not_required"}
       /\ rebalance[1].outcome = "done" =>
             {Calls[i].symbol : i \in {j \in 1..Len(Calls) :
                                         Calls[j].op = "submit_order"}}
                = Material

\* The first of three orders was refused and the two after it were
\* accepted.
C31_Witness ==
    /\ rebalance # <<>>
    /\ rebalance[1].outcome = "done"
    /\ Len(Calls) = 3
    /\ Calls[1].op = "submit_order" /\ ~Calls[1].ok
    /\ Calls[2].op = "submit_order" /\ Calls[2].ok
    /\ Calls[3].op = "submit_order" /\ Calls[3].ok

\* C38: within one rebalance every close_position call comes before every
\* submit_order call, and when orders are submitted every held symbol
\* absent from the target was closed before; when the account or position
\* lookup or a close_position call fails, no target order is submitted in
\* that run.
C38_CloseBeforeOrders ==
    rebalance # <<>> =>
       /\ \A i, j \in 1..Len(Calls) :
             (Calls[i].op = "submit_order" /\ Calls[j].op = "close_position")
                => j < i
       /\ (\E i \in 1..Len(Calls) : Calls[i].op = "submit_order") =>
             /\ rebalance[1].outcome = "done"
             /\ {Calls[i].symbol : i \in {j \in 1..Len(Calls) :
                     Calls[j].op = "close_position" /\ Calls[j].ok}}
                   = DOMAIN rebalance[1].held \ DOMAIN rebalance[1].targets
       /\ rebalance[1].outcome = "aborted" =>
             /\ rebalance[1].requests = {}
             /\ \A i \in 1..Len(Calls) : Calls[i].op # "submit_order"
       /\ (\E i \in 1..Len(Calls) : ~Calls[i].ok
                                      /\ Calls[i].op = "close_position") =>
             rebalance[1].outcome = "aborted"

\* A rebalance closed one position, the next close_position raised, and a
\* target symbol with a material delta got no order.
C38_Witness ==
    /\ rebalance # <<>>
    /\ rebalance[1].outcome = "aborted"
    /\ Len(Calls) = 2
    /\ Calls[1].op = "close_position" /\ Calls[1].ok
    /\ Calls[2].op = "close_position" /\ ~Calls[2].ok
    /\ Material # {}

C37_NoneLeftRunning ==
    main_pc = "exited" =>
        \A i \in 1..Len(strategies) :
            (strategies[i].starts >= 1 /\ strategies[i].start # "raised") =>
                /\ ~strategies[i].is_running
                /\ strategies[i].stops >= 1

\* C39: a registered name is never removed: it stays registered through
\* every register call and every load step; is_registered(name) holds
\* exactly for the names list_strategies returns; and the names main()
\* validated are all still registered whenever load_strategies creates
\* one of them, whatever was registered in between.
C39_RegistrationsKept ==
    /\ [][\A name \in Names :
             is_registered(name, registry) => is_registered(name, registry')]_vars
    /\ [](\A name \in Names :
             is_registered(name, registry) <=> name \in list_strategies(registry))
    /\ [](main_pc \in {"setup", "load"} => validated(strategy_names, registry))
    /\ [][(main_pc = "load" /\ load_i' # load_i) =>
             /\ is_registered(strategy_names[load_i], registry)
             /\ registry' = registry]_vars

\* "momentum" and then "sma" again, with another class, were registered
\* after main() validated sma and gemini-portfolio, and load_strategies
\* then created both: sma as an instance of the class registered last.
C39_Witness ==
    /\ main_pc = "load"
    /\ strategy_names = <<"gemini-portfolio", "sma">>
    /\ Len(strategies) = 2
    /\ reg_log = <<<<"momentum", "SMAStrategy">>,
                    <<"sma", "GeminiPortfolioStrategy">>>>
    /\ list_strategies(registry) = {"sma", "gemini-portfolio", "momentum"}
    /\ strategies[2].name = "sma"
    /\ strategies[2].cls = "GeminiPortfolioStrategy"

====
